---- MODULE Spec2Model ----
(***************************************************************************)
(* Compliance engine: gate pipeline (InputValidation, AddressValidation,   *)
(* Applicability, ExemptionCheck), fee calculator and response assembly.   *)
(*                                                                         *)
(* Money is held in integer cents, rates in units of 1e-4 ("rate4"), and   *)
(* rate x amount products in units of 1e-6 dollars ("micro"), so that the  *)
(* decimal.js arithmetic of the calculator is exact integer arithmetic.    *)
(* An amount of c cents stands for the JavaScript number nearest to c/100; *)
(* where the code computes on numbers (the amount check of the input gate, *)
(* effectiveRate) the model computes on IEEE 754 doubles.                  *)
(* Messages and audit lines are the strings the code builds.               *)
(***************************************************************************)
EXTENDS Integers, Sequences, FiniteSets, Bags, TLC

VARIABLES
    database,      \* TRUE: database revision (RateTable.initialize, db-backed gates)
    policy,        \* lookup-failure policy of AddressValidationGate: "fallback" | "dependency"
    cTx,           \* calculator harness: the transaction handed to calculateFees
    cCtx,          \* calculator harness: the context handed to ExemptionGate
    cResult,       \* calculator harness: [done, exemptionData, calc]
    ready,         \* database revision: initializeDatabase left a FeeCalculator
    addressCache,  \* AddressValidationGate's module-level cache: "state:city" -> boolean
    inflight,      \* bag of the calls of process in progress, each at an await point
                   \* (timeout specification: of the lookups still running after
                   \* their timer fired)
    last,          \* the most recently completed call of process
    prev,          \* sequential specification: the call completed before last
    waiting,       \* await-by-await specification: the call in progress and its await point
                   \* (transaction specification: the db.transaction call in progress)
    merchantThresholds, \* database revision: the rows of the merchant_thresholds table
    rateTable,     \* database revision: RateTable.initialized and RateTable.instance
    engines        \* database revision: each ComplianceEngine's initializeDatabase

vars == <<database, policy, cTx, cCtx, cResult, ready, addressCache, inflight, last, prev,
          waiting, merchantThresholds, rateTable, engines>>

\* ------------------------------------------------------------------ bounds
MaxItems == 4

MaxInFlight == 2

MaxEngines == 2

\* ------------------------------------------------------------- primitives
Undefined == -1        \* JavaScript's undefined where a rate is expected

\* Decimal.toFixed(2) under decimal.js' default ROUND_HALF_UP: micro (1e-6 dollars,
\* >= 0) to cents
ToFixed2(micro) == (micro + 5000) \div 10000

\* (rate * 100).toFixed(2) for a rate of at most 4 decimals: "6.00", "0.25"
PercentFixed2(rate4) ==
    ToString(rate4 \div 100) \o "." \o
    (IF rate4 % 100 < 10 THEN "0" ELSE "") \o ToString(rate4 % 100)

Abs(x) == IF x < 0 THEN -x ELSE x

\* the exact sum of whole numbers
RECURSIVE SumSeq(_)
SumSeq(s) == IF s = <<>> THEN 0 ELSE Head(s) + SumSeq(Tail(s))

\* ------------------------------------------------- IEEE 754 double arithmetic
\* A natural number of any size is the sequence of its digits in base Base, least
\* significant first, without leading zeros (0 is << >>).
\* An operand that is computed and then used more than once is bound by
\* "CHOOSE r \in { F(v) : v \in {operand} } : TRUE", F of the operand's value:
\* an operator's argument is evaluated wherever the definition names it.
Base == 32768

BaseBits == 15

Min(a, b) == IF a < b THEN a ELSE b

\* the position of the leading digit among a[1..n], 0 when they are zeros
RECURSIVE BigTop(_, _)
BigTop(a, n) == IF n = 0 \/ a[n] # 0 THEN n ELSE BigTop(a, n - 1)

\* a without leading zeros
BigNorm(a) == CHOOSE r \in { SubSeq(v, 1, BigTop(v, Len(v))) : v \in {a} } : TRUE

RECURSIVE BigFromNat(_)
BigFromNat(n) == IF n = 0 THEN <<>> ELSE << n % Base >> \o BigFromNat(n \div Base)

RECURSIVE BigToNatFrom(_, _)
BigToNatFrom(a, i) == IF i > Len(a) THEN 0 ELSE a[i] + Base * BigToNatFrom(a, i + 1)

BigToNat(a) == CHOOSE n \in { BigToNatFrom(v, 1) : v \in {a} } : TRUE

BigDigit(a, i) == IF 0 < i /\ i <= Len(a) THEN a[i] ELSE 0

RECURSIVE BigAddFrom(_, _, _, _)
BigAddPut(a, b, i, sum) == << sum % Base >> \o BigAddFrom(a, b, i + 1, sum \div Base)

BigAddFrom(a, b, i, carry) ==
    IF i > Len(a) /\ i > Len(b)
    THEN IF carry = 0 THEN <<>> ELSE << carry >>
    ELSE BigAddPut(a, b, i, BigDigit(a, i) + BigDigit(b, i) + carry)

BigAdd(a, b) == CHOOSE r \in { BigAddFrom(v, w, 1, 0) : v \in {a}, w \in {b} } : TRUE

\* a - b for a >= b
RECURSIVE BigSubFrom(_, _, _, _)
BigSubPut(a, b, i, difference) ==
    IF difference < 0 THEN << difference + Base >> \o BigSubFrom(a, b, i + 1, 1)
    ELSE << difference >> \o BigSubFrom(a, b, i + 1, 0)

BigSubFrom(a, b, i, borrow) ==
    IF i > Len(a) THEN <<>> ELSE BigSubPut(a, b, i, a[i] - BigDigit(b, i) - borrow)

BigSub(a, b) == CHOOSE r \in { BigNorm(BigSubFrom(v, w, 1, 0)) : v \in {a}, w \in {b} } : TRUE

\* -1, 0 or 1 as a is below, equal to or above b
RECURSIVE BigCmpFrom(_, _, _)
BigCmpFrom(a, b, i) ==
    IF i = 0 THEN 0
    ELSE IF a[i] < b[i] THEN -1
    ELSE IF a[i] > b[i] THEN 1
    ELSE BigCmpFrom(a, b, i - 1)

BigCmpOf(a, b) ==
    IF Len(a) < Len(b) THEN -1
    ELSE IF Len(a) > Len(b) THEN 1
    ELSE BigCmpFrom(a, b, Len(a))

BigCmp(a, b) == CHOOSE r \in { BigCmpOf(v, w) : v \in {a}, w \in {b} } : TRUE

\* a * k for 0 <= k < 2^16
RECURSIVE BigMulFrom(_, _, _, _)
BigMulPut(a, k, i, product) ==
    << product % Base >> \o BigMulFrom(a, k, i + 1, product \div Base)

BigMulFrom(a, k, i, carry) ==
    IF i > Len(a) THEN BigFromNat(carry) ELSE BigMulPut(a, k, i, a[i] * k + carry)

BigMulSmall(a, k) ==
    CHOOSE r \in { IF n = 0 THEN <<>> ELSE BigMulFrom(v, n, 1, 0) : v \in {a}, n \in {k} } : TRUE

\* a * 2^(BaseBits * whole + bits) for bits < BaseBits
BigShlBy(a, whole, bits) ==
    [i \in 1..whole |-> 0]
    \o BigNorm(<<>> \o [i \in 1..(Len(a) + 1) |->
                   ((BigDigit(a, i) * 2^bits) % Base)
                   + (BigDigit(a, i - 1) \div 2^(BaseBits - bits))])

\* a * 2^n
BigShlOf(a, n) ==
    IF a = <<>> \/ n = 0 THEN a ELSE BigShlBy(a, n \div BaseBits, n % BaseBits)

BigShl(a, n) == CHOOSE r \in { BigShlOf(v, k) : v \in {a}, k \in {n} } : TRUE

\* floor(a / 2^(BaseBits * whole + bits)) for bits < BaseBits
BigShrBy(a, whole, bits) ==
    BigNorm(<<>> \o [i \in 1..(Len(a) - whole) |->
                         (a[i + whole] \div 2^bits)
                         + ((BigDigit(a, i + whole + 1) % 2^bits) * 2^(BaseBits - bits))])

\* floor(a / 2^n)
BigShrOf(a, n) ==
    IF n \div BaseBits >= Len(a) THEN <<>> ELSE BigShrBy(a, n \div BaseBits, n % BaseBits)

BigShr(a, n) == CHOOSE r \in { BigShrOf(v, k) : v \in {a}, k \in {n} } : TRUE

\* the binary digit of a that counts 2^n, for n below the length of a
BigBit(a, n) == (a[n \div BaseBits + 1] \div 2^(n % BaseBits)) % 2

\* whether the n lowest binary digits of a are zeros, for n below the length of a
BigLowZero(a, n) ==
    /\ \A i \in 1..(n \div BaseBits) : a[i] = 0
    /\ a[n \div BaseBits + 1] % 2^(n % BaseBits) = 0

\* the number of binary digits of a digit n
BitLenNat(n) == Cardinality({ k \in 0..(BaseBits - 1) : 2^k <= n })

\* the number of binary digits of a
BigBitLen(a) ==
    CHOOSE n \in { IF v = <<>> THEN 0 ELSE BaseBits * (Len(v) - 1) + BitLenNat(v[Len(v)]) :
                   v \in {a} } : TRUE

\* a - b * k from digit i on, followed by what is still owed at the end: 0 when
\* a >= b * k
RECURSIVE BigMulSubFrom(_, _, _, _, _)
BigMulSubPut(a, b, k, i, owed, digit) ==
    IF digit < 0 THEN << digit + Base >> \o BigMulSubFrom(a, b, k, i + 1, owed \div Base + 1)
    ELSE << digit >> \o BigMulSubFrom(a, b, k, i + 1, owed \div Base)

BigMulSubStep(a, b, k, i, owed) == BigMulSubPut(a, b, k, i, owed, BigDigit(a, i) - (owed % Base))

BigMulSubFrom(a, b, k, i, carry) ==
    IF i > Len(a) /\ i > Len(b) THEN << carry >>
    ELSE BigMulSubStep(a, b, k, i, BigDigit(b, i) * k + carry)

\* One digit of a long division by b, whose leading digit is at least Base / 2:
\* the quotient of r * Base by b for a remainder r < b. The estimate from the two
\* leading digits of r * Base is never too small and at most 2 too large.
RECURSIVE BigDigitFit(_, _, _)
BigDivTake(shifted, b, digit, rest) ==
    IF rest[Len(rest)] # 0 THEN BigDigitFit(shifted, b, digit - 1)
    ELSE [digit |-> digit, r |-> BigNorm(SubSeq(rest, 1, Len(rest) - 1))]

BigDigitFit(shifted, b, digit) ==
    IF digit = 0 THEN [digit |-> 0, r |-> shifted]
    ELSE CHOOSE r \in { BigDivTake(shifted, b, digit, rest) :
                        rest \in {BigMulSubFrom(shifted, b, digit, 1, 0)} } : TRUE

BigDivShifted(shifted, b) ==
    CHOOSE q \in { BigDigitFit(shifted, b, Min(estimate, Base - 1)) :
                   estimate \in {(BigDigit(shifted, Len(b) + 1) * Base
                                  + BigDigit(shifted, Len(b))) \div b[Len(b)]} } : TRUE

BigDivDigit(r, b) ==
    CHOOSE q \in { BigDivShifted(shifted, b) :
                   shifted \in {IF r = <<>> THEN <<>> ELSE << 0 >> \o r} } : TRUE

\* n digits of the long division of r by b, r < b: the quotient of r * Base^n by
\* b, most significant digit last, and the remainder
RECURSIVE BigLongDiv(_, _, _)
BigLongDivPut(digit, rest) == [q |-> Append(rest.q, digit), r |-> rest.r]

BigLongDivStep(step, b, n) ==
    CHOOSE q \in { BigLongDivPut(step.digit, rest) :
                   rest \in {BigLongDiv(step.r, b, n - 1)} } : TRUE

BigLongDiv(r, b, n) ==
    IF n = 0 THEN [q |-> <<>>, r |-> r]
    ELSE CHOOSE q \in { BigLongDivStep(step, b, k) :
                        step \in {BigDivDigit(r, b)}, k \in {n} } : TRUE

\* A double is NaNValue or [neg, m, e]: the number (-1)^neg * m * 2^e with m of
\* exactly 53 binary digits, or m = << >> and e = 0 for zero. Subnormal numbers,
\* infinities and -0 do not occur for the amounts of a transaction.
NaNValue == [nan |-> TRUE]

Zero == [neg |-> FALSE, m |-> <<>>, e |-> 0]

\* kept + 1, which may take a 54th binary digit
RoundCarry(neg, rounded, e) ==
    IF BigBitLen(rounded) > 53 THEN [neg |-> neg, m |-> BigShr(rounded, 1), e |-> e + 1]
    ELSE [neg |-> neg, m |-> rounded, e |-> e]

\* the 53 digits kept, the next digit (half) and whether anything follows it
RoundKept(neg, kept, e, half, inexact) ==
    IF half /\ (inexact \/ kept[1] % 2 = 1)
    THEN IF kept[1] < Base - 1 THEN [neg |-> neg, m |-> [kept EXCEPT ![1] = @ + 1], e |-> e]
         ELSE RoundCarry(neg, BigAdd(kept, << 1 >>), e)
    ELSE [neg |-> neg, m |-> kept, e |-> e]

RoundDrop(neg, m, e, sticky, drop) ==
    IF m = <<>> THEN Zero
    ELSE IF drop <= 0 THEN [neg |-> neg, m |-> BigShl(m, -drop), e |-> e + drop]
    ELSE CHOOSE r \in { RoundKept(neg, kept, e + drop, BigBit(m, drop - 1) = 1,
                                  sticky \/ ~BigLowZero(m, drop - 1)) :
                        kept \in {BigShr(m, drop)} } : TRUE

\* m * 2^e, increased by less than 2^e when sticky, rounded to the nearest double,
\* a tie going to the even mantissa
RoundToDouble(neg, m, e, sticky) ==
    CHOOSE r \in { RoundDrop(neg, v, e, sticky, drop) :
                   v \in {m}, drop \in {BigBitLen(m) - 53} } : TRUE

DoubleNeg(x) ==
    CHOOSE r \in { IF v = NaNValue \/ v = Zero THEN v ELSE [v EXCEPT !.neg = ~@] :
                   v \in {x} } : TRUE

DoubleAbs(x) ==
    CHOOSE r \in { IF v = NaNValue THEN v ELSE [v EXCEPT !.neg = FALSE] : v \in {x} } : TRUE

\* x + y for mantissas mx and my at the same exponent e
DoubleAddAligned(x, y, e, mx, my) ==
    IF x.neg = y.neg THEN RoundToDouble(x.neg, BigAdd(mx, my), e, FALSE)
    ELSE IF BigCmp(mx, my) >= 0 THEN RoundToDouble(x.neg, BigSub(mx, my), e, FALSE)
    ELSE RoundToDouble(y.neg, BigSub(my, mx), e, FALSE)

DoubleAddAt(x, y, e) ==
    CHOOSE r \in { DoubleAddAligned(x, y, e, mx, my) :
                   mx \in {BigShl(x.m, x.e - e)}, my \in {BigShl(y.m, y.e - e)} } : TRUE

DoubleAddOf(x, y) ==
    IF x = NaNValue \/ y = NaNValue THEN NaNValue
    ELSE IF x = Zero THEN y
    ELSE IF y = Zero THEN x
    ELSE DoubleAddAt(x, y, Min(x.e, y.e))

\* x + y
DoubleAdd(x, y) == CHOOSE r \in { DoubleAddOf(v, w) : v \in {x}, w \in {y} } : TRUE

\* x - y
DoubleSub(x, y) == DoubleAdd(x, DoubleNeg(y))

DoublePositive(x) == x # NaNValue /\ x # Zero /\ ~x.neg

\* x > y; false when either is NaN
DoubleGreater(x, y) ==
    CHOOSE r \in { DoublePositive(difference) : difference \in {DoubleSub(x, y)} } : TRUE

\* the quotient of the mantissas from its leading digit (first) and the four
\* digits, with the remainder, that follow it
DoubleDivRound(x, y, first, d) ==
    RoundToDouble(x.neg # y.neg, BigNorm(d.q \o << first >>), x.e - y.e - 60, d.r # <<>>)

DoubleDivFrom(x, y, a, b, first) ==
    CHOOSE r \in { DoubleDivRound(x, y, first, d) :
                   d \in {BigLongDiv(IF first = 1 THEN BigSub(a, b) ELSE a, b, 4)} } : TRUE

DoubleDivShifted(x, y, a, b) == DoubleDivFrom(x, y, a, b, IF BigCmp(a, b) >= 0 THEN 1 ELSE 0)

DoubleDivOf(x, y) ==
    IF x = NaNValue \/ y = NaNValue THEN NaNValue
    ELSE IF x = Zero THEN Zero
    ELSE CHOOSE r \in { DoubleDivShifted(x, y, a, b) :
                        a \in {BigShl(x.m, 7)}, b \in {BigShl(y.m, 7)} } : TRUE

\* x / y for y other than zero: 60 binary digits of the quotient of the mantissas
DoubleDiv(x, y) == CHOOSE r \in { DoubleDivOf(v, w) : v \in {x}, w \in {y} } : TRUE

\* the first k digits after the point of r / d in base Base, least significant
\* first, for r < d < 2^16
RECURSIVE FractionDigits(_, _, _)
FractionDigits(r, d, k) ==
    IF k = 0 THEN <<>>
    ELSE Append(FractionDigits((r * Base) % d, d, k - 1), (r * Base) \div d)

\* what is left of r / d after its first k digits
RECURSIVE FractionRest(_, _, _)
FractionRest(r, d, k) == IF k = 0 THEN r ELSE FractionRest((r * Base) % d, d, k - 1)

\* the double nearest to n / d, for a natural number n and 0 < d < 2^16: five
\* digits after the point hold the 54 leading binary digits of any such ratio
DoubleOfRatio(n, d) ==
    IF n % d = 0 THEN RoundToDouble(FALSE, BigFromNat(n \div d), 0, FALSE)
    ELSE RoundToDouble(FALSE, BigNorm(FractionDigits(n % d, d, 5) \o BigFromNat(n \div d)),
                       -5 * BaseBits, FractionRest(n % d, d, 5) # 0)

\* Number.prototype.toFixed(digits) of x >= 0 as the integer n it prints at the
\* scale 10^-digits: the n for which n / scale - x is closest to zero, the larger
\* of two such n. scale is 10^digits, below 2^15, and x lies below 2^31 / scale.
ToFixedUnits(x, scale) ==
    IF x = Zero THEN 0
    ELSE BigToNat(BigShr(BigAdd(BigMulSmall(x.m, 2 * scale), BigShl(<< 1 >>, -x.e)),
                         1 - x.e))

ToFixedOf(x, scale) ==
    IF x = Zero THEN 0
    ELSE IF x.neg THEN -ToFixedUnits(DoubleAbs(x), scale)
    ELSE ToFixedUnits(x, scale)

\* parseFloat(x.toFixed(digits)) at the scale 10^-digits, for x of either sign
ToFixed(x, scale) == CHOOSE n \in { ToFixedOf(v, scale) : v \in {x} } : TRUE

\* ---- Number::toString: the shortest decimal digits that read back as the double
\* x > 0 is r / s, and every number in the interval from (r - low) / s to
\* (r + high) / s reads back as x, the ends included when the mantissa is even.
\* The interval is twice as wide above a power of two (units = 4).
BoundariesIn(x, units) ==
    IF x.e >= 0
    THEN [r |-> BigShl(x.m, x.e + units \div 2), s |-> << units >>,
          high |-> BigShl(<< units \div 2 >>, x.e), low |-> BigShl(<< 1 >>, x.e),
          closed |-> x.m[1] % 2 = 0, k |-> 0]
    ELSE [r |-> BigMulSmall(x.m, units), s |-> BigShl(<< units >>, -x.e),
          high |-> << units \div 2 >>, low |-> << 1 >>,
          closed |-> x.m[1] % 2 = 0, k |-> 0]

Boundaries(x) ==
    CHOOSE b \in { BoundariesIn(x, units) :
                   units \in {IF BigBitLen(BigSub(x.m, << 1 >>)) < 53 THEN 4 ELSE 2} } : TRUE

\* whether a / s reaches the end of the interval at 1
ReachesOne(b, a) == IF b.closed THEN BigCmp(a, b.s) >= 0 ELSE BigCmp(a, b.s) > 0

\* the power of ten k for which the upper end of the interval lies in
\* [10^(k-1), 10^k): r / s becomes x / 10^k
RECURSIVE ScaleUp(_)
ScaleUp(b) ==
    IF ReachesOne(b, BigAdd(b.r, b.high))
    THEN CHOOSE r \in { ScaleUp(scaled) :
                        scaled \in {[b EXCEPT !.s = BigMulSmall(@, 10), !.k = @ + 1]} } : TRUE
    ELSE b

RECURSIVE ScaleDown(_)
ScaleDown(b) ==
    IF ReachesOne(b, BigMulSmall(BigAdd(b.r, b.high), 10))
    THEN b
    ELSE CHOOSE r \in { ScaleDown(scaled) :
                        scaled \in {[b EXCEPT !.r = BigMulSmall(@, 10),
                                               !.high = BigMulSmall(@, 10),
                                               !.low = BigMulSmall(@, 10), !.k = @ - 1]} } : TRUE

\* the digit floor(a / s) for a < 10 * s
DigitOf(a, s) ==
    CHOOSE n \in { Cardinality({ d \in 1..9 : BigCmp(BigMulSmall(s, d), v) <= 0 }) :
                   v \in {a} } : TRUE

\* what is added to the last digit when both ends of the interval lie within
\* it: half is what is left of the number compared with one half, below (-1),
\* equal (0) or above (1); the digit nearer to the number, the even one of two
\* equally near
RoundUpAt(half, digit) ==
    IF half < 0 THEN 0
    ELSE IF half > 0 THEN 1
    ELSE digit % 2

\* the digits after the decimal point of r / s, as few as identify the interval:
\* after the next digit, r is what is left of the number; the digits end where
\* the interval's lower end (atLow) or upper end (atHigh) lies within the digit
RECURSIVE ShortestDigits(_)
ShortestEnd(b, digit, r, atLow, atHigh) ==
    IF ~atLow /\ ~atHigh
    THEN << digit >>
         \o CHOOSE digits \in { ShortestDigits(rest) :
                                rest \in {[b EXCEPT !.r = r, !.high = BigMulSmall(@, 10),
                                                    !.low = BigMulSmall(@, 10)]} } : TRUE
    ELSE IF atLow /\ ~atHigh THEN << digit >>
    ELSE IF atHigh /\ ~atLow THEN << digit + 1 >>
    ELSE << digit + RoundUpAt(BigCmp(BigMulSmall(r, 2), b.s), digit) >>

ShortestRest(b, digit, r) ==
    ShortestEnd(b, digit, r,
                IF b.closed THEN BigCmp(r, BigMulSmall(b.low, 10)) <= 0
                ELSE BigCmp(r, BigMulSmall(b.low, 10)) < 0,
                ReachesOne(b, BigAdd(r, BigMulSmall(b.high, 10))))

ShortestDigit(b, digit) ==
    CHOOSE digits \in { ShortestRest(b, digit, r) :
                        r \in {BigSub(BigMulSmall(b.r, 10), BigMulSmall(b.s, digit))} } : TRUE

ShortestDigits(b) ==
    CHOOSE digits \in { ShortestDigit(b, digit) :
                        digit \in {DigitOf(BigMulSmall(b.r, 10), b.s)} } : TRUE

RECURSIVE DigitStringFrom(_, _)
DigitStringFrom(digits, i) ==
    IF i > Len(digits) THEN "" ELSE ToString(digits[i]) \o DigitStringFrom(digits, i + 1)

DigitString(digits) == CHOOSE string \in { DigitStringFrom(v, 1) : v \in {digits} } : TRUE

Zeros(n) == DigitString([i \in 1..n |-> 0])

\* Number::toString of the n digits 0.d1...dn * 10^k
FormatDigits(digits, n, k) ==
    IF n <= k /\ k <= 21 THEN DigitString(digits) \o Zeros(k - n)
    ELSE IF 0 < k /\ k <= 21
    THEN DigitString(SubSeq(digits, 1, k)) \o "." \o DigitString(SubSeq(digits, k + 1, n))
    ELSE IF -6 < k /\ k <= 0 THEN "0." \o Zeros(-k) \o DigitString(digits)
    ELSE DigitString(SubSeq(digits, 1, 1))
         \o (IF n > 1 THEN "." \o DigitString(SubSeq(digits, 2, n)) ELSE "")
         \o (IF k - 1 < 0 THEN "e-" \o ToString(1 - k) ELSE "e+" \o ToString(k - 1))

FormatNumber(digits, k) ==
    CHOOSE string \in { FormatDigits(v, Len(v), k) : v \in {digits} } : TRUE

FormatScaled(neg, scaled) ==
    CHOOSE string \in { (IF neg THEN "-" ELSE "") \o FormatNumber(ShortestDigits(v), v.k) :
                        v \in {scaled} } : TRUE

\* String(x), `${x}`
NumberToString(x) ==
    IF x = NaNValue THEN "NaN"
    ELSE IF x = Zero THEN "0"
    ELSE FormatScaled(x.neg, ScaleDown(ScaleUp(Boundaries(x))))

DoubleToString(x) == CHOOSE string \in { NumberToString(v) : v \in {x} } : TRUE

\* ------------------------------------------------ configuration (rules.ts)
SUPPORTED_STATES == {"CA", "NY", "TX"}

SUPPORTED_CITIES(state) ==
    CASE state = "CA" -> {"Los Angeles", "San Francisco", "San Diego"}
      [] state = "NY" -> {"New York City", "Buffalo"}
      [] OTHER -> {}

CUSTOMER_EXEMPTION_TYPES == {"WHOLESALE"}

ITEM_EXEMPTION_RULES(category) ==
    IF category = "FOOD" THEN {"CA"} ELSE {}

\* STATE_RATES: a state's record, or Undefined when the map has no entry
STATE_RATES(state) ==
    CASE state = "CA" -> [stateRate |-> 600, countyRate |-> 25, cityRate |-> 225]
      [] state = "NY" -> [stateRate |-> 400, countyRate |-> 50, cityRate |-> 100]
      [] state = "TX" -> [stateRate |-> 0, countyRate |-> Undefined, cityRate |-> Undefined]
      [] OTHER -> [stateRate |-> Undefined, countyRate |-> Undefined, cityRate |-> Undefined]

CATEGORY_MODIFIERS(category) ==
    CASE category = "SOFTWARE" -> 100
      [] category = "PHYSICAL_GOODS" -> 0
      [] category = "FOOD" -> 0
      [] OTHER -> Undefined

COUNTY_MAPPINGS(city) ==
    IF city = "Los Angeles" THEN "Los Angeles County" ELSE ""

isCustomerExempt(customerType) == customerType \in CUSTOMER_EXEMPTION_TYPES

isItemExempt(category, state) == state \in ITEM_EXEMPTION_RULES(category)

\* --------------------------------------- jurisdiction_rates rows (the seed)
\* the rows in the order of getJurisdictionRates (ORDER BY state, rate_type)
JurisdictionRateRows == <<
    [state |-> "CA", county |-> "",                   city |-> "Los Angeles",   rateType |-> "city",   rate |-> 225],
    [state |-> "CA", county |-> "Los Angeles County", city |-> "",              rateType |-> "county", rate |-> 25],
    [state |-> "CA", county |-> "",                   city |-> "",              rateType |-> "state",  rate |-> 600],
    [state |-> "NY", county |-> "",                   city |-> "New York City", rateType |-> "city",   rate |-> 100],
    [state |-> "NY", county |-> "",                   city |-> "",              rateType |-> "county", rate |-> 50],
    [state |-> "NY", county |-> "",                   city |-> "",              rateType |-> "state",  rate |-> 400],
    [state |-> "TX", county |-> "",                   city |-> "",              rateType |-> "state",  rate |-> 0] >>

\* the rate of the last row of rows for (state, rateType), a city row counting only
\* when it names a city; Undefined if there is none
RECURSIVE LastRate(_, _, _, _)
LastRate(rows, state, rateType, needCity) ==
    IF rows = <<>> THEN Undefined
    ELSE LET r == rows[Len(rows)]
         IN IF r.state = state /\ r.rateType = rateType /\ (needCity => r.city # "")
            THEN r.rate
            ELSE LastRate(SubSeq(rows, 1, Len(rows) - 1), state, rateType, needCity)

\* RateTable.initialize, first loop: the per-state record
stateRatesMap(state) ==
    IF \E i \in 1..Len(JurisdictionRateRows) : JurisdictionRateRows[i].state = state
    THEN [stateRate  |-> LET v == LastRate(JurisdictionRateRows, state, "state", FALSE)
                         IN IF v = Undefined THEN 0 ELSE v,
          countyRate |-> LastRate(JurisdictionRateRows, state, "county", FALSE),
          cityRate   |-> LastRate(JurisdictionRateRows, state, "city", TRUE)]
    ELSE [stateRate |-> Undefined, countyRate |-> Undefined, cityRate |-> Undefined]

\* RateTable.initialize, second loop: "state:city" -> rate, Undefined when no key
RECURSIVE LastKeyed(_, _, _, _)
LastKeyed(rows, state, city, rateType) ==
    IF rows = <<>> THEN Undefined
    ELSE LET r == rows[Len(rows)]
         IN IF r.rateType = rateType /\ r.city # "" /\ r.state = state /\ r.city = city
            THEN r.rate
            ELSE LastKeyed(SubSeq(rows, 1, Len(rows) - 1), state, city, rateType)

cityRatesMap(state, city) == LastKeyed(JurisdictionRateRows, state, city, "city")

countyRatesByCityMap(state, city) == LastKeyed(JurisdictionRateRows, state, city, "county")

\* ------------------------------------------------------------- RateTable
\* RateTable's static fields once initialize has run: initialized, and the
\* instance as the object constructed (objects are numbered as they are made)
RateTableLoaded == [initialized |-> TRUE, instance |-> [object |-> 1], constructed |-> 1]

\* no ComplianceEngine's initialisation is followed
NoEngines == << >>

\* a rate is "truthy" when it is defined and not 0
Truthy(rate) == rate # Undefined /\ rate # 0

getStateRate(db, state) ==
    LET rates == IF db THEN stateRatesMap(state) ELSE STATE_RATES(state)
    IN IF Truthy(rates.stateRate) THEN rates.stateRate ELSE 0

getCountyRate(db, state, city) ==
    IF db
    THEN IF countyRatesByCityMap(state, city) # Undefined
         THEN countyRatesByCityMap(state, city)
         ELSE IF Truthy(stateRatesMap(state).countyRate)
              THEN stateRatesMap(state).countyRate
              ELSE Undefined
    ELSE IF ~Truthy(STATE_RATES(state).countyRate) THEN Undefined
         ELSE IF COUNTY_MAPPINGS(city) # "" THEN STATE_RATES(state).countyRate
              ELSE Undefined

getCityRate(db, state, city) ==
    IF db
    THEN IF cityRatesMap(state, city) # Undefined
         THEN cityRatesMap(state, city)
         ELSE stateRatesMap(state).cityRate
    ELSE IF ~Truthy(STATE_RATES(state).cityRate) THEN Undefined
         ELSE IF state = "CA" /\ city = "Los Angeles" THEN STATE_RATES(state).cityRate
              ELSE IF state = "NY" /\ city = "New York City" THEN STATE_RATES(state).cityRate
                   ELSE Undefined

\* mutant: no category has a modifier
getCategoryModifier_none(db, category) == 0

getCategoryModifier(db, category) ==
    IF Truthy(CATEGORY_MODIFIERS(category)) THEN CATEGORY_MODIFIERS(category) ELSE 0

\* ---------------------------------------------------------- ExemptionGate
\* a JavaScript Map as the sequence of its entries in insertion order
MapHas(m, k) == \E i \in 1..Len(m) : m[i].key = k

MapGet(m, k) == m[CHOOSE i \in 1..Len(m) : m[i].key = k].value

MapSet(m, k, v) ==
    IF MapHas(m, k)
    THEN [i \in 1..Len(m) |-> IF m[i].key = k THEN [key |-> k, value |-> v] ELSE m[i]]
    ELSE Append(m, [key |-> k, value |-> v])

createPassResult(gateName, message, metadata) ==
    [gateName |-> gateName, passed |-> TRUE, message |-> message,
     errorType |-> "", metadata |-> metadata]

createFailResult(gateName, message, errorType, metadata) ==
    [gateName |-> gateName, passed |-> FALSE, message |-> message,
     errorType |-> errorType, metadata |-> metadata]

\* the item loop of ExemptionGate.execute: itemExemptions after items[1..n]
RECURSIVE itemExemptionsAfter(_, _, _)
itemExemptionsAfter(items, state, n) ==
    IF n = 0 THEN <<>>
    ELSE LET before == itemExemptionsAfter(items, state, n - 1)
             item == items[n]
         IN IF isItemExempt(item.category, state)
            THEN MapSet(before, item.id, << item.category \o " exempt in " \o state >>)
            ELSE before

\* reasons.map(reason => itemId + ": " + reason) over all entries, flattened
RECURSIVE flattenItemExemptions(_)
flattenItemExemptions(entries) ==
    IF entries = <<>> THEN <<>>
    ELSE LET e == Head(entries)
         IN [i \in 1..Len(e.value) |-> e.key \o ": " \o e.value[i]]
            \o flattenItemExemptions(Tail(entries))

\* mutant: a customer type that is not in the exempt set fails the gate
ExemptionGate_execute_rejectsUnknownType(transaction, context) ==
    IF context.customerType # "" /\ ~isCustomerExempt(context.customerType)
    THEN createFailResult("ExemptionCheck", "Unknown customer type", "VALIDATION",
                          [exemptionData |-> [customerExemptions |-> <<>>,
                                              itemExemptions |-> <<>>],
                           appliedExemptions |-> <<>>])
    ELSE createPassResult("ExemptionCheck", "No exemptions applied",
                          [exemptionData |-> [customerExemptions |-> <<>>,
                                              itemExemptions |-> <<>>],
                           appliedExemptions |-> <<>>])

ExemptionGate_execute(transaction, context) ==
    LET customerType == context.customerType
        exemptionData ==
            [customerExemptions |->
                 IF customerType # "" /\ isCustomerExempt(customerType)
                 THEN << customerType >> ELSE <<>>,
             itemExemptions |->
                 itemExemptionsAfter(transaction.items, transaction.destination.state,
                                     Len(transaction.items))]
        appliedExemptions ==
            exemptionData.customerExemptions \o
            flattenItemExemptions(exemptionData.itemExemptions)
    IN createPassResult("ExemptionCheck",
           IF Len(appliedExemptions) = 0 THEN "No exemptions applied"
           ELSE ToString(Len(appliedExemptions)) \o " exemption(s) applied",
           [exemptionData |-> exemptionData, appliedExemptions |-> appliedExemptions])

\* ------------------------------------------------------ JavaScript values
\* null and undefined where an object is expected
Null == [null |-> TRUE]

UndefinedObject == [undefined |-> TRUE]

\* "!x" for an object, null or undefined
Nullish(x) == x = Null \/ x = UndefinedObject

\* V8's TypeError for "x.property" with x null or undefined
readError(x, property) ==
    "TypeError: Cannot read properties of "
    \o (IF x = Null THEN "null" ELSE "undefined") \o " (reading '" \o property \o "')"

\* V8's TypeError for "const { property } = source" with its value x null or
\* undefined
destructureError(x, property, source) ==
    "TypeError: Cannot destructure property '" \o property \o "' of '" \o source
    \o "' as it is " \o (IF x = Null THEN "null" ELSE "undefined") \o "."

\* an async call that resolved with a value, or rejected with an error
Returned(value) == [threw |-> FALSE, result |-> value]

Threw(error) == [threw |-> TRUE, error |-> error]

\* n.toLocaleString() of a non-negative whole number: "100,000", "2,300,000"
RECURSIVE ToLocaleString(_)
ToLocaleString(n) ==
    IF n < 1000 THEN ToString(n)
    ELSE ToLocaleString(n \div 1000) \o "," \o
         (IF n % 1000 < 10 THEN "00" ELSE IF n % 1000 < 100 THEN "0" ELSE "") \o
         ToString(n % 1000)

\* ---------------------------------------------------- InputValidationGate
\* Strings that fail "!x || typeof x !== 'string'" are held as "", numbers that
\* fail "typeof x !== 'number' || x < 0" as a negative number, a missing
\* transaction, destination or item as Null or UndefinedObject; a transaction
\* whose items is not an array has no items field.
\* The number NaN is held as a value outside the range of the amounts.
NaN == 999999999

\* the number an amount of the model stands for
amountOf(cents) ==
    IF cents = NaN THEN NaNValue
    ELSE IF cents < 0 THEN DoubleNeg(DoubleOfRatio(-cents, 100))
    ELSE DoubleOfRatio(cents, 100)

\* "typeof x !== 'number' || x < 0": typeof NaN is 'number' and NaN < 0 is false
failsNumberCheck(x) == x # NaN /\ x < 0

\* "const tolerance = 0.01;"
tolerance == DoubleOfRatio(1, 100)

\* "Math.abs(itemsSum - tx.totalAmount) > tolerance" on numbers: false when the
\* difference is NaN
exceedsTolerance(itemsSum, totalAmount) ==
    DoubleGreater(DoubleAbs(DoubleSub(itemsSum, totalAmount)), tolerance)

\* "Array.isArray(tx.items)"
isArray(tx) == "items" \in DOMAIN tx

RECURSIVE validateItems(_, _)
validateItems(items, n) ==
    IF n > Len(items) THEN Returned("")
    ELSE LET item == items[n]
         IN IF Nullish(item)
            THEN Threw(readError(item, "id"))
            ELSE IF item.id = ""
            THEN Returned("Each item must have an id (string)")
            ELSE IF item.category = ""
            THEN Returned("Each item must have a category (string)")
            ELSE IF failsNumberCheck(item.amount)
            THEN Returned("Each item must have a non-negative amount (number)")
            ELSE validateItems(items, n + 1)

\* "tx.items.reduce((sum, item) => sum + item.amount, 0)" after items[1..n]
RECURSIVE itemsSumAfter(_, _)
itemsSumAfter(items, n) ==
    IF n = 0 THEN Zero
    ELSE DoubleAdd(itemsSumAfter(items, n - 1), amountOf(items[n].amount))

itemsSumOf(items) == itemsSumAfter(items, Len(items))

\* the failure of the amount check
amountMismatch(itemsSum, totalAmount) ==
    "Items sum (" \o DoubleToString(itemsSum) \o ") does not match totalAmount ("
    \o DoubleToString(totalAmount) \o ")"

InputValidationGate_execute(transaction) ==
    LET fail(message) ==
            Returned(createFailResult("InputValidation", message, "VALIDATION", Null))
        tx == transaction
    IN IF Nullish(tx) THEN fail("Transaction is required")
       ELSE IF tx.transactionId = ""
       THEN fail("transactionId is required and must be a string")
       ELSE IF tx.merchantId = ""
       THEN fail("merchantId is required and must be a string")
       ELSE IF tx.customerId = ""
       THEN fail("customerId is required and must be a string")
       ELSE IF Nullish(tx.destination) THEN fail("destination is required")
       ELSE IF tx.destination.country = "" THEN fail("destination.country is required")
       ELSE IF tx.destination.state = "" THEN fail("destination.state is required")
       ELSE IF tx.destination.city = "" THEN fail("destination.city is required")
       ELSE IF ~isArray(tx) \/ Len(tx.items) = 0
       THEN fail("items is required and must be a non-empty array")
       ELSE LET itemsOutcome == validateItems(tx.items, 1)
            IN IF itemsOutcome.threw THEN itemsOutcome
               ELSE IF itemsOutcome.result # "" THEN fail(itemsOutcome.result)
               ELSE IF failsNumberCheck(tx.totalAmount)
               THEN fail("totalAmount is required and must be a non-negative number")
               ELSE IF tx.currency = ""
               THEN fail("currency is required and must be a string")
               ELSE IF tx.currency # "USD"
               THEN fail("Unsupported currency: " \o tx.currency \o ". Only USD is supported")
               ELSE IF exceedsTolerance(itemsSumOf(tx.items), amountOf(tx.totalAmount))
               THEN fail(amountMismatch(itemsSumOf(tx.items), amountOf(tx.totalAmount)))
               ELSE Returned(createPassResult("InputValidation",
                                              "Input validation passed", Null))

\* --------------------------------------------------- AddressValidationGate
\* jurisdictions table as seeded
Jurisdictions == {
    [state |-> "CA", city |-> "Los Angeles"],
    [state |-> "CA", city |-> "San Francisco"],
    [state |-> "CA", city |-> "San Diego"],
    [state |-> "NY", city |-> "New York City"],
    [state |-> "NY", city |-> "Buffalo"] }

isStateSupported(state) == \E j \in Jurisdictions : j.state = state

isCitySupported(state, city) == \E j \in Jurisdictions : j.state = state /\ j.city = city

cacheKeyOf(destination) == destination.state \o ":" \o destination.city

unsupportedDestination(destination) ==
    createFailResult("AddressValidation",
        "Unsupported destination: " \o destination.city \o ", " \o destination.state,
        "VALIDATION", destination)

\* mutant: a cached key passes whatever verdict was cached for it
addressFromCache_ignoresVerdict(destination, isValid) ==
    createPassResult("AddressValidation", "Valid address (from cache)",
                     [source |-> "cache"])

\* execute, the branch taken when the cache holds the key
addressFromCache(destination, isValid) ==
    IF isValid
    THEN createPassResult("AddressValidation", "Valid address (from cache)",
                          [source |-> "cache"])
    ELSE unsupportedDestination(destination)

\* execute, the branch taken when the lookup answered isValid
addressFromLookup(pol, destination, isValid) ==
    IF isValid
    THEN createPassResult("AddressValidation", "Valid US address",
             [source |-> IF pol = "dependency" THEN "database" ELSE "external_service"])
    ELSE unsupportedDestination(destination)

\* what the lookup answers when its queries succeed
performDatabaseValidation(country, state, city) ==
    country = "US" /\ isStateSupported(state) /\ isCitySupported(state, city)

\* mutant: a lookup failure reported like an unsupported destination
handleDatabaseFailure_asUnsupported(destination, errorMessage) ==
    unsupportedDestination(destination)

handleDatabaseFailure(destination, errorMessage) ==
    createFailResult("AddressValidation",
        "Address validation service unavailable: " \o errorMessage \o
        ". Cannot validate destination: " \o destination.city \o ", " \o destination.state,
        "DEPENDENCY",
        [country |-> destination.country, state |-> destination.state,
         city |-> destination.city, fallback |-> TRUE, error |-> errorMessage,
         source |-> "database_failure"])

fallbackValidation(destination) ==
    LET fail(message) ==
            createFailResult("AddressValidation", message, "DEPENDENCY",
                [country |-> destination.country, state |-> destination.state,
                 city |-> destination.city, fallback |-> TRUE])
    IN IF destination.country # "US"
       THEN fail("Unsupported country: " \o destination.country \o ". Only US is supported")
       ELSE IF ~isStateSupported(destination.state)
       THEN fail("Unsupported state: " \o destination.state)
       ELSE IF ~isCitySupported(destination.state, destination.city)
       THEN fail("Unsupported city: " \o destination.city \o " in state " \o
                 destination.state)
       ELSE createPassResult("AddressValidation", "Valid US address (fallback validation)",
                [source |-> "fallback", country |-> destination.country,
                 state |-> destination.state, city |-> destination.city])

\* mutant: the cache is never consulted
cacheHit_never(cache, destination) == FALSE

\* "cacheKey in addressCache"
cacheHit(cache, destination) == cacheKeyOf(destination) \in DOMAIN cache

\* mutant: only a positive verdict is cached
cacheWrite_positiveOnly(cache, destination, isValid) ==
    IF isValid THEN (cacheKeyOf(destination) :> isValid) @@ cache ELSE cache

\* "addressCache[cacheKey] = isValid"
cacheWrite(cache, destination, isValid) == (cacheKeyOf(destination) :> isValid) @@ cache

\* mutant: the rejection of a failed lookup is cached under either policy
cacheAfterFailure_cachesRejection(pol, cache, destination, outcome) ==
    IF outcome.threw THEN cache
    ELSE cacheWrite(cache, destination, outcome.result.passed)

\* the cache once the catch branch of execute has run: handleDatabaseFailure
\* writes nothing, fallbackValidation writes its verdict unless a query of it
\* rejects
cacheAfterFailure(pol, cache, destination, outcome) ==
    IF pol = "dependency" \/ outcome.threw THEN cache
    ELSE cacheWrite(cache, destination, outcome.result.passed)

\* execute from the cache check on. cache is the cache as the call finds it;
\* lookup tells how the call's lookup ended when the cache does not hold the key:
\* [kind |-> "answer"], or [kind |-> "error", error, fallbackOk] for a lookup that
\* failed or timed out, fallbackOk telling whether the queries of the fallback
\* revision's local validation succeed.
AddressValidationGate_execute(pol, cache, transaction, lookup) ==
    LET destination == transaction.destination
        cacheKey == cacheKeyOf(destination)
    IN IF cacheHit(cache, destination)
       THEN Returned(addressFromCache(destination, cache[cacheKey]))
       ELSE IF lookup.kind = "answer"
       THEN Returned(addressFromLookup(pol, destination,
                performDatabaseValidation(destination.country, destination.state,
                                          destination.city)))
       ELSE IF pol = "dependency"
       THEN Returned(handleDatabaseFailure(destination, lookup.error))
       ELSE IF destination.country = "US" /\ ~lookup.fallbackOk
       THEN Threw("jurisdictions query failed")
       ELSE Returned(fallbackValidation(destination))

\* -------------------------------------------------------- ApplicabilityGate
MERCHANT_THRESHOLD == 100000

MERCHANT_VOLUMES(merchantId, state) ==
    CASE merchantId = "merchant_456" /\ state = "CA" -> 2300000
      [] merchantId = "merchant_789" /\ state = "NY" -> 50000
      [] OTHER -> Undefined

\* merchant_thresholds table as seeded
MerchantThresholdRows == {
    [merchant_id |-> "merchant_456", state |-> "CA", threshold_amount |-> 100000,
     current_volume |-> 2300000],
    [merchant_id |-> "merchant_789", state |-> "NY", threshold_amount |-> 100000,
     current_volume |-> 50000] }

\* rows is what the merchant_thresholds table holds
merchantRows(rows, merchantId, state) ==
    { r \in rows : r.merchant_id = merchantId /\ r.state = state }

getMerchantVolume(db, rows, merchantId, state) ==
    IF db
    THEN IF merchantRows(rows, merchantId, state) # {}
         THEN (CHOOSE r \in merchantRows(rows, merchantId, state) : TRUE).current_volume
         ELSE 0
    ELSE IF MERCHANT_VOLUMES(merchantId, state) = Undefined THEN 0
         ELSE MERCHANT_VOLUMES(merchantId, state)

getMerchantThreshold(rows, merchantId, state) ==
    IF merchantRows(rows, merchantId, state) # {}
    THEN (CHOOSE r \in merchantRows(rows, merchantId, state) : TRUE).threshold_amount
    ELSE 100000

\* mutant: a merchant exactly at the threshold does not meet it
meetsThreshold_strict(volume, threshold) == volume > threshold

meetsThreshold(volume, threshold) == volume >= threshold

ApplicabilityGate_execute(db, rows, transaction) ==
    LET merchantId == transaction.merchantId
        state == transaction.destination.state
        volume == getMerchantVolume(db, rows, merchantId, state)
        threshold == IF db THEN getMerchantThreshold(rows, merchantId, state)
                     ELSE MERCHANT_THRESHOLD
        metadata == [merchantId |-> merchantId, state |-> state, volume |-> volume,
                     threshold |-> threshold]
    IN IF meetsThreshold(volume, threshold)
       THEN createPassResult("Applicability",
                IF db THEN "Merchant above $" \o ToLocaleString(threshold) \o
                           " threshold in " \o state
                ELSE "Merchant above $100K threshold in " \o state,
                metadata)
       ELSE createFailResult("Applicability",
                "Merchant volume ($" \o ToLocaleString(volume) \o ") below threshold ($" \o
                ToLocaleString(threshold) \o ") in " \o state,
                "VALIDATION", metadata)

\* ----------------------------------------------------------- FeeCalculator
NoBreakdown == [present |-> FALSE, jurisdiction |-> "", category |-> "", rate |-> 0, amount |-> 0]

getCountyName(city) ==
    IF city = "Los Angeles" THEN "Los Angeles County" ELSE city \o " County"

\* "parseFloat(itemAmount.times(rate).toFixed(2))": NaN for the amount NaN
feeAmount(amount, rate) == IF amount = NaN THEN NaN ELSE ToFixed2(amount * rate)

\* "x > 0" for a fee: false for NaN
isPositive(x) == x # NaN /\ x > 0

\* the sum of two fees: NaN when either is
plus(x, y) == IF x = NaN \/ y = NaN THEN NaN ELSE x + y

\* a county or city breakdown: present only when the rate table has the rate
rateBreakdown(jurisdiction, rate, amount) ==
    IF rate # Undefined
    THEN [present |-> TRUE, jurisdiction |-> jurisdiction, category |-> "",
          rate |-> rate, amount |-> feeAmount(amount, rate)]
    ELSE NoBreakdown

\* calculateItemFees once the four rates are looked up. totalFee adds the unrounded
\* state and category fees to the rounded county and city amounts.
itemFees(item, state, city, stateRate, countyRate, cityRate, categoryModifierRate) ==
    [itemId |-> item.id, amount |-> item.amount, category |-> item.category,
     fees |-> [stateRate |-> [present |-> TRUE, jurisdiction |-> state, category |-> "",
                              rate |-> stateRate,
                              amount |-> feeAmount(item.amount, stateRate)],
               countyRate |-> rateBreakdown(getCountyName(city), countyRate, item.amount),
               cityRate |-> rateBreakdown(city, cityRate, item.amount),
               categoryModifier |->
                   [present |-> TRUE, jurisdiction |-> "", category |-> item.category,
                    rate |-> categoryModifierRate,
                    amount |-> feeAmount(item.amount, categoryModifierRate)]],
     totalFee |->
         IF item.amount = NaN THEN NaN
         ELSE ToFixed2(item.amount * stateRate
                       + (IF countyRate # Undefined
                          THEN ToFixed2(item.amount * countyRate) * 10000 ELSE 0)
                       + (IF cityRate # Undefined
                          THEN ToFixed2(item.amount * cityRate) * 10000 ELSE 0)
                       + item.amount * categoryModifierRate)]

calculateItemFees(db, item, state, city) ==
    itemFees(item, state, city, getStateRate(db, state), getCountyRate(db, state, city),
             getCityRate(db, state, city), getCategoryModifier(db, item.category))

\* the calculation pushed for an exempt item
exemptItemCalculation(item) ==
    [itemId |-> item.id, amount |-> item.amount, category |-> item.category,
     fees |-> [stateRate |-> [present |-> TRUE, jurisdiction |-> "", category |-> "",
                              rate |-> 0, amount |-> 0],
               countyRate |-> NoBreakdown,
               cityRate |-> NoBreakdown,
               categoryModifier |-> [present |-> TRUE, jurisdiction |-> "",
                                     category |-> item.category, rate |-> 0, amount |-> 0]],
     totalFee |-> 0]

\* mutant: the customer-level exemption is not consulted
isItemExemptInCalculation_itemOnly(item, exemptionData) ==
    MapHas(exemptionData.itemExemptions, item.id)
    /\ Len(MapGet(exemptionData.itemExemptions, item.id)) > 0

\* the exemption test of the item loop of calculateFees
isItemExemptInCalculation(item, exemptionData) ==
    LET itemExemptions == IF MapHas(exemptionData.itemExemptions, item.id)
                          THEN MapGet(exemptionData.itemExemptions, item.id)
                          ELSE <<>>
        isCustomerFullyExempt == Len(exemptionData.customerExemptions) > 0
    IN Len(itemExemptions) > 0 \/ isCustomerFullyExempt

\* mutant: a line for the state rate and the category modifier whatever their
\* amounts
itemAuditLines_zeroAmountsToo(item, calc, state) ==
    << "Applied " \o state \o " state rate: "
       \o PercentFixed2(calc.fees.stateRate.rate) \o "%" >>
    \o (IF calc.fees.countyRate.present /\ isPositive(calc.fees.countyRate.amount)
        THEN << "Applied " \o calc.fees.countyRate.jurisdiction \o " county rate: "
                \o PercentFixed2(calc.fees.countyRate.rate) \o "%" >>
        ELSE <<>>)
    \o (IF calc.fees.cityRate.present /\ isPositive(calc.fees.cityRate.amount)
        THEN << "Applied " \o calc.fees.cityRate.jurisdiction \o " city rate: "
                \o PercentFixed2(calc.fees.cityRate.rate) \o "%" >>
        ELSE <<>>)
    \o << "Applied " \o item.category \o " category modifier: "
          \o PercentFixed2(calc.fees.categoryModifier.rate) \o "%" >>

\* the audit-trail lines of one non-exempt item
itemAuditLines(item, calc, state) ==
    (IF isPositive(calc.fees.stateRate.amount)
     THEN << "Applied " \o state \o " state rate: "
             \o PercentFixed2(calc.fees.stateRate.rate) \o "%" >>
     ELSE <<>>)
    \o (IF calc.fees.countyRate.present /\ isPositive(calc.fees.countyRate.amount)
        THEN << "Applied " \o calc.fees.countyRate.jurisdiction \o " county rate: "
                \o PercentFixed2(calc.fees.countyRate.rate) \o "%" >>
        ELSE <<>>)
    \o (IF calc.fees.cityRate.present /\ isPositive(calc.fees.cityRate.amount)
        THEN << "Applied " \o calc.fees.cityRate.jurisdiction \o " city rate: "
                \o PercentFixed2(calc.fees.cityRate.rate) \o "%" >>
        ELSE <<>>)
    \o (IF isPositive(calc.fees.categoryModifier.amount)
        THEN << "Applied " \o item.category \o " category modifier: "
                \o PercentFixed2(calc.fees.categoryModifier.rate) \o "%" >>
        ELSE <<>>)

\* mutant: the running total takes the whole dollars of the item's fee
feeStep_wholeDollars(before, item, state, calc) ==
    [itemCalculations |-> Append(before.itemCalculations, calc),
     totalFees |-> before.totalFees + (calc.totalFee \div 100) * 100,
     auditTrail |-> before.auditTrail \o itemAuditLines(item, calc, state)]

\* one round of the item loop of calculateFees for a non-exempt item
feeStep(before, item, state, calc) ==
    [itemCalculations |-> Append(before.itemCalculations, calc),
     totalFees |-> plus(before.totalFees, calc.totalFee),
     auditTrail |-> before.auditTrail \o itemAuditLines(item, calc, state)]

\* one round of the item loop of calculateFees for an exempt item
exemptStep(before, item) ==
    [itemCalculations |-> Append(before.itemCalculations, exemptItemCalculation(item)),
     totalFees |-> before.totalFees,
     auditTrail |-> Append(before.auditTrail,
                           "Item " \o item.id \o " (" \o item.category
                           \o ") exempt - no fees applied")]

\* the item loop of calculateFees after items[1..n]:
\* [itemCalculations, totalFees (cents), auditTrail]
RECURSIVE feeLoop(_, _, _, _)
feeLoop(db, transaction, exemptionData, n) ==
    IF n = 0 THEN [itemCalculations |-> <<>>, totalFees |-> 0, auditTrail |-> <<>>]
    ELSE IF isItemExemptInCalculation(transaction.items[n], exemptionData)
    THEN exemptStep(feeLoop(db, transaction, exemptionData, n - 1), transaction.items[n])
    ELSE feeStep(feeLoop(db, transaction, exemptionData, n - 1), transaction.items[n],
                 transaction.destination.state,
                 calculateItemFees(db, transaction.items[n], transaction.destination.state,
                                   transaction.destination.city))

\* "itemCalculations.reduce((sum, item) => sum + item.totalFee, 0)" after
\* itemCalculations[1..n], as a number
RECURSIVE itemFeesSumAfter(_, _)
itemFeesSumAfter(itemCalculations, n) ==
    IF n = 0 THEN Zero
    ELSE DoubleAdd(itemFeesSumAfter(itemCalculations, n - 1),
                   amountOf(itemCalculations[n].totalFee))

\* the sum of the items' fees in whole cents, NaN when a fee is
RECURSIVE sumTotalFee(_)
sumTotalFee(itemCalculations) ==
    IF itemCalculations = <<>> THEN 0
    ELSE plus(Head(itemCalculations).totalFee, sumTotalFee(Tail(itemCalculations)))

\* "lastItem.totalFee = parseFloat((lastItem.totalFee + difference).toFixed(2))"
\* for "difference = totalFeesRounded - itemFeesSum"
adjustLastItem(itemCalculations, n, totalFeesRounded, itemFeesSum) ==
    [itemCalculations EXCEPT ![n].totalFee =
        ToFixed(DoubleAdd(amountOf(@), DoubleSub(totalFeesRounded, itemFeesSum)), 100)]

reconcileSum(itemCalculations, totalFeesRounded, itemFeesSum) ==
    IF exceedsTolerance(itemFeesSum, totalFeesRounded) /\ Len(itemCalculations) > 0
    THEN adjustLastItem(itemCalculations, Len(itemCalculations), totalFeesRounded,
                        itemFeesSum)
    ELSE itemCalculations

\* the precision check: the last item absorbs a difference of more than
\* "tolerance = 0.01" between the sum of the items' fees and the rounded total
reconcile(itemCalculations, totalFeesRounded) ==
    reconcileSum(itemCalculations, amountOf(totalFeesRounded),
                 itemFeesSumAfter(itemCalculations, Len(itemCalculations)))

\* mutant: the quotient is truncated to 4 decimals instead of rounded
effectiveRateOf_truncated(totalFeesRounded, totalAmount) ==
    IF totalAmount > 0 THEN (totalFeesRounded * 10000) \div totalAmount ELSE 0

\* "totalAmount > 0 ? totalFeesRounded / totalAmount : 0" on numbers and then
\* "parseFloat(effectiveRate.toFixed(4))", as a rate4: NaN > 0 is false, and
\* NaN.toFixed(4) is "NaN"
effectiveRateOf(totalFeesRounded, totalAmount) ==
    IF totalAmount = NaN \/ totalAmount <= 0 THEN 0
    ELSE IF totalFeesRounded = NaN THEN NaN
    ELSE ToFixed(DoubleDiv(amountOf(totalFeesRounded), amountOf(totalAmount)), 10000)

\* the unrounded fee (micro) of a non-exempt item, 0 for an exempt one
unroundedItemFee(db, item, state, city, exemptionData) ==
    IF isItemExemptInCalculation(item, exemptionData) THEN 0
    ELSE item.amount * (getStateRate(db, state)
                        + (IF getCountyRate(db, state, city) # Undefined
                           THEN getCountyRate(db, state, city) ELSE 0)
                        + (IF getCityRate(db, state, city) # Undefined
                           THEN getCityRate(db, state, city) ELSE 0)
                        + getCategoryModifier(db, item.category))

\* the result of calculateFees from the item loop's outcome and the rounded total
feesResult(items, totalFeesRounded, totalAmount, auditTrail) ==
    [items |-> items, totalFees |-> totalFeesRounded,
     effectiveRate |-> effectiveRateOf(totalFeesRounded, totalAmount),
     auditTrail |-> auditTrail]

\* calculateFees after the item loop: rounded total, precision check, result
afterLoop(loop, totalAmount) ==
    feesResult(reconcile(loop.itemCalculations, loop.totalFees), loop.totalFees,
               totalAmount, loop.auditTrail)

\* mutant: the total is the sum of the unrounded item fees, rounded once at the end,
\* and no precision check follows
calculateFees_roundAtEnd(db, transaction, exemptionData) ==
    feesResult(feeLoop(db, transaction, exemptionData,
                       Len(transaction.items)).itemCalculations,
               ToFixed2(SumSeq([i \in 1..Len(transaction.items) |->
                   unroundedItemFee(db, transaction.items[i],
                                    transaction.destination.state,
                                    transaction.destination.city, exemptionData)])),
               transaction.totalAmount,
               feeLoop(db, transaction, exemptionData, Len(transaction.items)).auditTrail)

calculateFees(db, transaction, exemptionData) ==
    afterLoop(feeLoop(db, transaction, exemptionData, Len(transaction.items)),
              transaction.totalAmount)

\* ---------------------------------------------------------- GateOrchestrator
\* the gate registry in execution order
GateNames == << "InputValidation", "AddressValidation", "Applicability", "ExemptionCheck" >>

\* whether reading transaction.destination.<field> succeeds
hasDestination(transaction) == ~Nullish(transaction) /\ ~Nullish(transaction.destination)

\* whether the items of the transaction can be iterated and each of them read
hasItems(transaction) ==
    /\ hasDestination(transaction)
    /\ isArray(transaction)
    /\ \A i \in 1..Len(transaction.items) : ~Nullish(transaction.items[i])

\* the first item of the array that is null or undefined
firstNullish(items) == items[CHOOSE i \in 1..Len(items) :
                                /\ Nullish(items[i])
                                /\ \A j \in 1..(i - 1) : ~Nullish(items[j])]

\* gate.execute(transaction, context) of the n-th gate. env holds the call's
\* transaction and context, the cache as the call finds it, how its address
\* lookup ends, and whether its configuration queries and its persistence succeed.
\* A gate after the first throws the TypeError of its first read of a missing
\* part of the transaction.
gateExecute(n, env) ==
    CASE n = 1 -> InputValidationGate_execute(env.tx)
      [] n = 2 -> IF Nullish(env.tx)
                  THEN Threw(readError(env.tx, "destination"))
                  ELSE IF Nullish(env.tx.destination)
                  THEN Threw(destructureError(env.tx.destination, "country",
                                              "transaction.destination"))
                  ELSE AddressValidationGate_execute(env.policy, env.cache, env.tx,
                                                     env.lookup)
      [] n = 3 -> IF Nullish(env.tx)
                  THEN Threw(destructureError(env.tx, "merchantId", "transaction"))
                  ELSE IF Nullish(env.tx.destination)
                  THEN Threw(destructureError(env.tx.destination, "state",
                                              "transaction.destination"))
                  ELSE IF env.db /\ ~env.configOk
                  THEN Threw("merchant_thresholds query failed")
                  ELSE Returned(ApplicabilityGate_execute(env.db, env.thresholds,
                                                          env.tx))
      [] n = 4 -> IF Nullish(env.tx)
                  THEN Threw(destructureError(env.tx, "customerId", "transaction"))
                  ELSE IF Nullish(env.tx.destination)
                  THEN Threw(destructureError(env.tx.destination, "state", "destination"))
                  ELSE IF ~isArray(env.tx)
                  THEN Threw("TypeError: items is not iterable")
                  ELSE IF ~hasItems(env.tx)
                  THEN Threw(readError(firstNullish(env.tx.items), "category"))
                  ELSE Returned(ExemptionGate_execute(env.tx, env.ctx))

\* mutant: the line is the gate's message whether it passed or failed
auditLine_messageOnly(result) == result.message

\* the line pushed for a result: "result.message || `${result.gateName} passed`"
\* for a passed gate, "`${result.gateName} failed: ${result.message}`" otherwise
auditLine(result) ==
    IF result.passed
    THEN IF result.message # "" THEN result.message ELSE result.gateName \o " passed"
    ELSE result.gateName \o " failed: " \o result.message

\* mutant: only a failed gate gets an audit line
pushAuditLine_failuresOnly(auditTrail, result) ==
    IF result.passed THEN auditTrail ELSE Append(auditTrail, auditLine(result))

\* "auditTrail.push(...)" of the loop body
pushAuditLine(auditTrail, result) == Append(auditTrail, auditLine(result))

\* mutant: the loop goes on after a failed gate
shortCircuit_never(result) == FALSE

\* "Short-circuit on failure"
shortCircuit(result) == ~result.passed

\* the loop of execute from the n-th gate on; executed lists the gates whose
\* execute was invoked. gateStep is the loop body once gate.execute has settled.
RECURSIVE gateLoop(_, _, _, _, _)
gateStep(env, n, results, auditTrail, ran, outcome) ==
    IF outcome.threw
    THEN [threw |-> TRUE, error |-> outcome.error, results |-> results, executed |-> ran]
    ELSE IF shortCircuit(outcome.result)
    THEN [threw |-> FALSE, results |-> Append(results, outcome.result), passed |-> FALSE,
          auditTrail |-> pushAuditLine(auditTrail, outcome.result), executed |-> ran]
    ELSE gateLoop(env, n + 1, Append(results, outcome.result),
                  pushAuditLine(auditTrail, outcome.result), ran)

gateLoop(env, n, results, auditTrail, executed) ==
    IF n > Len(GateNames)
    THEN [threw |-> FALSE, results |-> results, passed |-> TRUE,
          auditTrail |-> auditTrail, executed |-> executed]
    ELSE gateStep(env, n, results, auditTrail, Append(executed, GateNames[n]),
                  gateExecute(n, env))

GateOrchestrator_execute(env) == gateLoop(env, 1, <<>>, <<>>, <<>>)

\* ---------------------------------------------------------- ComplianceEngine
\* extractExemptionData's default: no exemptions
NoExemptionData == [customerExemptions |-> <<>>, itemExemptions |-> <<>>]

gateNameMapping(gateName) ==
    CASE gateName = "AddressValidation" -> "ADDRESS_VALIDATION"
      [] gateName = "Applicability" -> "APPLICABILITY"
      [] gateName = "ExemptionCheck" -> "EXEMPTION_CHECK"
      [] gateName = "InputValidation" -> "INPUTVALIDATION"

\* mutant: no gate entry carries appliedExemptions
gateEntry_plain(result) ==
    [name |-> gateNameMapping(result.gateName), passed |-> result.passed,
     message |-> result.message]

gateEntry(result) ==
    IF result.gateName = "ExemptionCheck"
    THEN [name |-> gateNameMapping(result.gateName), passed |-> result.passed,
          message |-> result.message,
          appliedExemptions |->
              IF "appliedExemptions" \in DOMAIN result.metadata
              THEN result.metadata.appliedExemptions ELSE <<>>]
    ELSE [name |-> gateNameMapping(result.gateName), passed |-> result.passed,
          message |-> result.message]

\* mutant: the entries come out in reverse order
transformGateResults_reversed(gateResults) ==
    LET publicGateResults ==
            SelectSeq(gateResults, LAMBDA r : r.gateName # "InputValidation")
    IN [i \in 1..Len(publicGateResults) |->
            gateEntry(publicGateResults[Len(publicGateResults) + 1 - i])]

\* mutant: every internal result becomes a gate entry
transformGateResults_unfiltered(gateResults) ==
    [i \in 1..Len(gateResults) |-> gateEntry(gateResults[i])]

transformGateResults(gateResults) ==
    LET publicGateResults ==
            SelectSeq(gateResults, LAMBDA r : r.gateName # "InputValidation")
    IN [i \in 1..Len(publicGateResults) |-> gateEntry(publicGateResults[i])]

extractExemptionData(gateResults) ==
    LET found == SelectSeq(gateResults, LAMBDA r : r.gateName = "ExemptionCheck")
    IN IF found = <<>> \/ "exemptionData" \notin DOMAIN found[1].metadata
       THEN NoExemptionData
       ELSE found[1].metadata.exemptionData

\* mutant: the failure response carries an empty calculation
buildFailureResponse_withCalculation(transaction, gateResults, auditTrail) ==
    IF Nullish(transaction)
    THEN Threw(readError(transaction, "transactionId"))
    ELSE Returned([transactionId |-> transaction.transactionId, status |-> "REJECTED",
                   gates |-> transformGateResults(gateResults),
                   calculation |-> [items |-> <<>>, totalFees |-> 0, effectiveRate |-> 0],
                   auditTrail |-> auditTrail])

buildFailureResponse(transaction, gateResults, auditTrail) ==
    IF Nullish(transaction)
    THEN Threw(readError(transaction, "transactionId"))
    ELSE Returned([transactionId |-> transaction.transactionId, status |-> "REJECTED",
                   gates |-> transformGateResults(gateResults),
                   auditTrail |-> auditTrail])

buildSuccessResponse(transaction, gateResults, calculationResult, auditTrail) ==
    [transactionId |-> transaction.transactionId, status |-> "CALCULATED",
     gates |-> transformGateResults(gateResults),
     calculation |-> [items |-> calculationResult.items,
                      totalFees |-> calculationResult.totalFees,
                      effectiveRate |-> calculationResult.effectiveRate],
     auditTrail |-> auditTrail]

\* the persistence step of the database revision; its failure is swallowed.
\* saveTransaction throws on a transaction whose destination or items it cannot
\* read.
persist(env, response) ==
    IF ~env.db THEN "disabled"
    ELSE IF ~hasItems(env.tx) \/ ~env.persistOk THEN "failed"
    ELSE "saved"

\* mutant: a persistence failure raised to the caller instead of being logged
afterPersistence_raises(env, response) ==
    IF persist(env, response) = "failed"
    THEN Threw("Failed to persist transaction to database")
    ELSE Returned(response)

\* process from the persistence step on: the try block around saveTransaction
\* and saveAuditTrail, whose catch only logs, and then "return response"
afterPersistence(env, response) == Returned(response)

\* how a call that built a response ends, given the outcome of its last step;
\* gateAuditTrail records the audit trail GateOrchestrator.execute returned,
\* built and persisted the response before persistence and how persistence went
settled(gateExecution, built, persisted, outcome) ==
    IF outcome.threw
    THEN [kind |-> "threw", error |-> outcome.error,
          results |-> gateExecution.results, executed |-> gateExecution.executed,
          gateAuditTrail |-> gateExecution.auditTrail,
          built |-> built, persisted |-> persisted]
    ELSE [kind |-> "returned", response |-> outcome.result,
          results |-> gateExecution.results, passed |-> gateExecution.passed,
          executed |-> gateExecution.executed,
          gateAuditTrail |-> gateExecution.auditTrail,
          built |-> built, persisted |-> persisted]

\* what a call that built a response hands back: the response, with the gate
\* results and the executed gates it went through
returned(env, gateExecution, response) ==
    settled(gateExecution, response, persist(env, response),
            afterPersistence(env, response))

threw(gateExecution, error) ==
    [kind |-> "threw", error |-> error, results |-> gateExecution.results,
     executed |-> gateExecution.executed]

\* process, the branch "if any gate failed"
failed(env, gateExecution, built) ==
    IF built.threw THEN threw(gateExecution, built.error)
    ELSE returned(env, gateExecution, built.result)

\* process, the branch of a passed gate execution
calculated(env, gateExecution, calculationResult) ==
    returned(env, gateExecution,
             buildSuccessResponse(env.tx, gateExecution.results, calculationResult,
                                  gateExecution.auditTrail \o calculationResult.auditTrail))

\* process once the orchestrator has settled
respond(env, gateExecution) ==
    IF gateExecution.threw THEN threw(gateExecution, gateExecution.error)
    ELSE IF ~gateExecution.passed
    THEN failed(env, gateExecution,
                buildFailureResponse(env.tx, gateExecution.results,
                                     gateExecution.auditTrail))
    ELSE calculated(env, gateExecution,
                    calculateFees(env.db, env.tx,
                                  extractExemptionData(gateExecution.results)))

\* process(transaction, context): the outcome of one call
process(initialized, env) ==
    IF env.db /\ ~initialized
    THEN [kind |-> "threw",
          error |-> "FeeCalculator not initialized. Database connection required.",
          results |-> <<>>, executed |-> <<>>]
    ELSE respond(env, GateOrchestrator_execute(env))

\* ------------------------------------------------- calculator harness
\* the items a transaction of the harness is made of
ItemPool == {
    [id |-> "item_1", category |-> "SOFTWARE",       amount |-> 10000],
    [id |-> "item_1", category |-> "FOOD",           amount |-> 5000],
    [id |-> "item_2", category |-> "SOFTWARE",       amount |-> 75],
    [id |-> "item_3", category |-> "PHYSICAL_GOODS", amount |-> 8],
    [id |-> "item_4", category |-> "SOFTWARE",       amount |-> 0] }

CalcDestinations == {
    [country |-> "US", state |-> "CA", city |-> "Los Angeles"],
    [country |-> "US", state |-> "CA", city |-> "San Francisco"],
    [country |-> "US", state |-> "NY", city |-> "New York City"],
    [country |-> "US", state |-> "TX", city |-> "Austin"] }

ItemLists == UNION { [1..k -> ItemPool] : k \in 1..MaxItems }

amountsOf(items) == [i \in 1..Len(items) |-> items[i].amount]

\* single items whose fee is an odd multiple of 0.00005 of the amount
TieItems == {
    [id |-> "item_5", category |-> "SOFTWARE", amount |-> 160],
    [id |-> "item_5", category |-> "SOFTWARE", amount |-> 32] }

CalcTransactions ==
    { [transactionId |-> "txn_calc", merchantId |-> "merchant_456",
       customerId |-> "customer_789", destination |-> d, items |-> its,
       totalAmount |-> SumSeq(amountsOf(its)) + delta, currency |-> "USD"] :
      d \in CalcDestinations, its \in ItemLists, delta \in {0, 1} }
    \cup
    { [transactionId |-> "txn_calc", merchantId |-> "merchant_456",
       customerId |-> "customer_789", destination |-> d, items |-> << item >>,
       totalAmount |-> item.amount, currency |-> "USD"] :
      d \in CalcDestinations, item \in TieItems }

CalcContexts == { [customerType |-> ""], [customerType |-> "WHOLESALE"] }

NoCalc == [items |-> <<>>, totalFees |-> 0, effectiveRate |-> 0, auditTrail |-> <<>>]

InitCalc ==
    /\ database \in BOOLEAN
    /\ policy = "fallback"
    /\ cTx \in CalcTransactions
    /\ cCtx \in CalcContexts
    /\ cResult = [done |-> FALSE, exemptionData |-> NoExemptionData, calc |-> NoCalc]
    /\ ready = TRUE
    /\ addressCache = [k \in {} |-> FALSE]
    /\ inflight = EmptyBag
    /\ last = [kind |-> "none"]
    /\ prev = [kind |-> "none"]
    /\ waiting = [at |-> 0]
    /\ rateTable = RateTableLoaded
    /\ engines = NoEngines
    /\ merchantThresholds = MerchantThresholdRows

\* the exemption stage followed by the calculation, as process runs them
Calculate ==
    /\ ~cResult.done
    /\ LET exemptionData == ExemptionGate_execute(cTx, cCtx).metadata.exemptionData
       IN cResult' = [done |-> TRUE, exemptionData |-> exemptionData,
                      calc |-> calculateFees(database, cTx, exemptionData)]
    /\ UNCHANGED <<database, policy, cTx, cCtx, ready, addressCache, inflight, last, prev,
                   waiting, merchantThresholds,
                   rateTable, engines>>

NextCalc == Calculate

SpecCalc == InitCalc /\ [][NextCalc]_vars

\* ------------------------------------------------------- pipeline harness
Tx(transactionId, merchantId, country, state, city, items, totalAmount, currency) ==
    [transactionId |-> transactionId, merchantId |-> merchantId,
     customerId |-> "customer_789",
     destination |-> [country |-> country, state |-> state, city |-> city],
     items |-> items, totalAmount |-> totalAmount, currency |-> currency]

software100 == << [id |-> "item_1", category |-> "SOFTWARE", amount |-> 10000] >>

validTransactionCA ==
    Tx("txn_123", "merchant_456", "US", "CA", "Los Angeles", software100, 10000, "USD")

transactionForeignCountry ==
    Tx("txn_mx", "merchant_456", "MX", "CA", "Los Angeles", software100, 10000, "USD")

transactionMerchantBelowThreshold ==
    Tx("txn_low_merchant", "merchant_789", "US", "NY", "New York City", software100,
       10000, "USD")

\* validTransactionCA from a merchant with no volume data
transactionUnknownMerchant ==
    Tx("txn_123", "merchant_unknown", "US", "CA", "Los Angeles", software100, 10000, "USD")

transactionUnsupportedState ==
    Tx("txn_unsupported", "merchant_456", "US", "FL", "Miami", software100, 10000, "USD")

invalidTransactionWrongCurrency ==
    Tx("txn_eur", "merchant_456", "US", "CA", "Los Angeles", software100, 10000, "EUR")

invalidTransactionAmountMismatch ==
    Tx("txn_mismatch", "merchant_456", "US", "CA", "Los Angeles", software100, 20000, "USD")

\* the fixture that holds a transactionId and nothing else
invalidTransactionMissingFields ==
    [transactionId |-> "txn_invalid", merchantId |-> "", customerId |-> "",
     destination |-> UndefinedObject, totalAmount |-> -1, currency |-> ""]

invalidTransactionNullItem ==
    Tx("txn_null_item", "merchant_456", "US", "CA", "Los Angeles", << Null >>, 10000, "USD")

NoContext == [customerType |-> ""]

\* the (transaction, context) pairs process is called with
ProcessInputs ==
    { [tx |-> t, ctx |-> NoContext] :
        t \in { validTransactionCA, transactionForeignCountry,
                transactionMerchantBelowThreshold, transactionUnsupportedState,
                invalidTransactionWrongCurrency,
                invalidTransactionMissingFields, Null } }
    \cup { [tx |-> validTransactionCA, ctx |-> [customerType |-> "WHOLESALE"]] }

\* error messages of a lookup that did not answer
LookupErrors(pol) ==
    IF pol = "dependency" THEN { "Database service timeout", "connection refused" }
    ELSE { "External service unavailable" }

NoCall == [kind |-> "none"]

\* no call is in progress
NoWait == [at |-> 0]

EmptyCache == [k \in {} |-> FALSE]

InitPipeline ==
    /\ database \in BOOLEAN
    /\ policy \in {"fallback", "dependency"}
    /\ ready \in (IF database THEN BOOLEAN ELSE {TRUE})
    /\ addressCache = EmptyCache
    /\ inflight = EmptyBag
    /\ last = NoCall
    /\ prev = NoCall
    /\ waiting = NoWait
    /\ rateTable = RateTableLoaded
    /\ engines = NoEngines
    /\ merchantThresholds = MerchantThresholdRows
    /\ cTx = validTransactionCA
    /\ cCtx = NoContext
    /\ cResult = [done |-> FALSE, exemptionData |-> NoExemptionData, calc |-> NoCalc]

\* the orchestrator's loop goes on after a gate with this outcome
passes(outcome) == ~outcome.threw /\ ~shortCircuit(outcome.result)

\* whether InputValidationGate.execute lets the transaction through to
\* AddressValidationGate.execute, which reads the destination
passesInputValidation(transaction) ==
    passes(InputValidationGate_execute(transaction)) /\ hasDestination(transaction)

\* the transactions of several items process is called with: those of
\* merchant_456 over the item lists
ResponseDestinations == {
    [country |-> "US", state |-> "CA", city |-> "Los Angeles"],
    [country |-> "US", state |-> "CA", city |-> "San Francisco"],
    [country |-> "US", state |-> "NY", city |-> "New York City"] }

ResponseItemLists == UNION { [1..k -> ItemPool] : k \in 1..(MaxItems - 1) }

ResponseTransactions ==
    { [transactionId |-> "txn_123", merchantId |-> "merchant_456",
       customerId |-> "customer_789", destination |-> d, items |-> its,
       totalAmount |-> SumSeq(amountsOf(its)), currency |-> "USD"] :
      d \in ResponseDestinations, its \in ResponseItemLists }
    \cup { transactionForeignCountry, transactionMerchantBelowThreshold,
           transactionUnsupportedState }

\* the transactions process is called with, and those of them that get to
\* AddressValidationGate.execute
ProcessTransactions == { input.tx : input \in ProcessInputs } \cup ResponseTransactions

AddressGateTransactions ==
    { t : t \in { transaction \in ProcessTransactions : passesInputValidation(transaction) } }

\* whether a call of the harness with this transaction gets to
\* AddressValidationGate.execute and reads the destination there
reachesAddressGate(transaction) == transaction \in AddressGateTransactions

\* AddressValidationGate.execute runs for the transaction, does not find its key
\* in what it reads of the cache and calls the lookup
looksUp(initialized, db, transaction, cache) ==
    /\ ~db \/ initialized
    /\ reachesAddressGate(transaction)
    /\ ~cacheHit(cache, transaction.destination)

Env(input, cache, lookup, configOk, persistOk) ==
    [db |-> database, policy |-> policy, tx |-> input.tx, ctx |-> input.ctx,
     cache |-> cache, lookup |-> lookup, configOk |-> configOk, persistOk |-> persistOk,
     thresholds |-> merchantThresholds]

\* whether the queries of the fallback revision's local validation succeed; it
\* issues them for a US destination only
FallbackOutcomes(input) ==
    IF policy = "fallback" /\ input.tx.destination.country = "US" THEN BOOLEAN ELSE {TRUE}

\* a call that invokes no lookup
NoLookup == [kind |-> "none"]

\* how a lookup went that lost its race against the timer
TimedOutLookup ==
    [kind |-> "error", error |-> "Database service timeout", fallbackOk |-> TRUE]

\* whether the orchestrator gets to the gate of that name
reachesGate(gateName, gateExecution) ==
    \E i \in 1..Len(gateExecution.executed) : gateExecution.executed[i] = gateName

\* a completed call, kept with its input, with the cache as the call found it,
\* with how its address lookup went and with how the merchant queries of the
\* database revision's ApplicabilityGate went, if the call got to them
completed(call, input, cache, lookup, configOk) ==
    call @@ [input |-> input, lookup |-> lookup, cache |-> cache,
             merchantLookup |-> IF database /\ reachesGate("Applicability", call)
                                THEN IF configOk THEN "answered" ELSE "failed"
                                ELSE "none"]

\* ------------------------------------------------ calls in progress
\* the await points of process on something remote, in the order a call meets
\* them; the field at of a call in progress is the index of the one it is at
AwaitPoints == << "initialisation", "address lookup", "merchant lookup", "persistence" >>

\* what AddressValidationGate.execute reads of the cache, "cacheKey in
\* addressCache" and "addressCache[cacheKey]": the entry under the key of the
\* transaction's destination, nothing when the cache has none
entryOf(cache, transaction) ==
    IF hasDestination(transaction)
    THEN [k \in DOMAIN cache \cap {cacheKeyOf(transaction.destination)} |-> cache[k]]
    ELSE EmptyCache

\* a call as it enters process: what AddressValidationGate.execute reads of the
\* cache, and the outcomes of the awaits the call has not reached yet
entering(input) ==
    [at |-> 0, input |-> input, cache |-> entryOf(addressCache, input.tx),
     lookup |-> IF looksUp(ready, database, input.tx, addressCache)
                THEN [kind |-> "answer"] ELSE NoLookup,
     configOk |-> TRUE, persistOk |-> TRUE]

envOf(w) == Env(w.input, w.cache, w.lookup, w.configOk, w.persistOk)

\* the ways the address lookup of a call can go under a failure policy, and
\* what a call can read of the cache for its transaction
Lookups(pol, lookedUp) ==
    IF lookedUp
    THEN {[kind |-> "answer"]}
         \cup { [kind |-> "error", error |-> e, fallbackOk |-> fallbackOk] :
                    e \in LookupErrors(pol), fallbackOk \in BOOLEAN }
    ELSE {NoLookup}

Entries(transaction) ==
    IF hasDestination(transaction)
    THEN {EmptyCache} \cup { cacheKeyOf(transaction.destination) :> isValid :
                                 isValid \in BOOLEAN }
    ELSE {EmptyCache}

\* every environment a call of the pipeline can run in, with the seeded
\* merchant_thresholds table
Environments(initialized) ==
    UNION { UNION { UNION { UNION {
        { [db |-> db, policy |-> pol, tx |-> input.tx, ctx |-> input.ctx,
           cache |-> cache, lookup |-> lookup, configOk |-> configOk,
           persistOk |-> persistOk, thresholds |-> MerchantThresholdRows] :
              lookup \in Lookups(pol, looksUp(initialized, db, input.tx, cache)),
              configOk \in BOOLEAN, persistOk \in BOOLEAN } :
          cache \in Entries(input.tx) } :
        db \in BOOLEAN } :
      pol \in {"fallback", "dependency"} } :
    input \in ProcessInputs }

\* process in each of them, on an engine that is initialised and on one that is
\* not; the outcome depends on nothing else, so it is computed once per
\* environment
Outcomes ==
    [key \in UNION { { <<initialized, env>> : env \in Environments(initialized) } :
                       initialized \in BOOLEAN } |->
        process(key[1], key[2])] @@ << >>

\* process(transaction, context) for the call w
outcomeOf(w) == Outcomes[<<ready, envOf(w)>>]

\* initializeDatabase has not settled: no call has completed and every call in
\* progress is at "await this.dbInitialized"
initialising == last = NoCall /\ \A c \in BagToSet(inflight) : c.at = 1

\* AddressValidationGate.execute does not find the call's key in the cache and
\* calls the lookup
missesCache(w) == looksUp(ready, database, w.input.tx, w.cache)

\* the orchestrator's loop gets to ApplicabilityGate.execute: the gates before
\* it have passed
reachesApplicabilityGate(w) ==
    /\ reachesAddressGate(w.input.tx)
    /\ passes(AddressValidationGate_execute(policy, w.cache, w.input.tx, w.lookup))

\* whether the lookup of the call waits on something outside the process: the
\* timer and the queries of the fallback revision's validateWithExternalService,
\* for any destination, and the queries of the DEPENDENCY revision's
\* performDatabaseValidation, which returns false without a query for a
\* destination outside the US
remoteLookup(w) == policy = "fallback" \/ w.input.tx.destination.country = "US"

\* the messages a lookup of the call can fail with
LookupFailures(w) == IF remoteLookup(w) THEN LookupErrors(policy) ELSE {}

\* whether the call is suspended at the k-th await point, so that other calls
\* run before it goes on:
\*  1  await this.dbInitialized, pending until initializeDatabase has settled
\*  2  "await this.validateWith...Service(country, state, city)" on a cache
\*     miss, between the read of the cache and the write to it
\*  3  getMerchantVolume / getMerchantThreshold of the database revision
\*  4  saveTransaction / saveAuditTrail once a response is built
\* builds tells whether process gets to build a response for the call
awaitsWhen(k, w, builds) ==
    CASE k = 1 -> database /\ initialising
      [] k = 2 -> missesCache(w)
      [] k = 3 -> database /\ ready /\ reachesApplicabilityGate(w)
      [] k = 4 -> /\ database /\ ready
                  /\ builds

awaits(k, w) == awaitsWhen(k, w, outcomeOf(w).kind = "returned")

\* the first await point from the k-th on at which the call waits; past the
\* last one when it waits at none
RECURSIVE nextAwaitWhen(_, _, _)
nextAwaitWhen(k, w, builds) ==
    IF k > Len(AwaitPoints) THEN k
    ELSE IF awaitsWhen(k, w, builds) THEN k
    ELSE nextAwaitWhen(k + 1, w, builds)

nextAwait(k, w) == nextAwaitWhen(k, w, outcomeOf(w).kind = "returned")

\* the cache once AddressValidationGate.execute has run for the call
cacheAfter(w) ==
    IF ~missesCache(w) THEN addressCache
    ELSE IF w.lookup.kind = "answer"
    THEN cacheWrite(addressCache, w.input.tx.destination,
                    performDatabaseValidation(w.input.tx.destination.country,
                                              w.input.tx.destination.state,
                                              w.input.tx.destination.city))
    ELSE cacheAfterFailure(policy, addressCache, w.input.tx.destination,
                           AddressValidationGate_execute(policy, w.cache, w.input.tx,
                                                         w.lookup))

\* the call w runs on from its k-th await point (0 when it is being called) to
\* the n-th, where it joins the other calls in progress, or settles: its outcome
\* becomes the last completed call
carriesOn(k, n, w, others, sequential) ==
    /\ addressCache' = IF k <= 2 /\ n > 2 THEN cacheAfter(w) ELSE addressCache
    /\ IF n <= Len(AwaitPoints)
       THEN /\ inflight' = others (+) SetToBag({[w EXCEPT !.at = n]})
            /\ UNCHANGED <<last, prev>>
       ELSE /\ inflight' = others
            /\ last' = completed(outcomeOf(w), w.input, w.cache, w.lookup,
                                 w.configOk)
            /\ prev' = IF sequential THEN last ELSE prev
    /\ UNCHANGED <<database, policy, ready, cTx, cCtx, cResult, waiting,
                   merchantThresholds, rateTable, engines>>

\* the call w, which is among the calls in progress, runs on from its k-th
\* await point with what it awaited there
resumes(k, w, answered, sequential) ==
    carriesOn(k, nextAwait(k + 1, answered), answered, inflight (-) SetToBag({w}),
              sequential)

\* initializeDatabase has settled and calls that awaited it have not run on
\* yet: they do so before anything else happens
draining == ~initialising /\ \E c \in BagToSet(inflight) : c.at = 1

\* a call in progress awaits a lookup that asks nothing outside the process:
\* its continuation is queued, and runs before any answer from outside is
\* handled
settling == \E c \in BagToSet(inflight) : c.at = 2 /\ ~remoteLookup(c)

\* process is called; the call runs to its first await point, or to its end
\* when it awaits nothing
Start(input, sequential) ==
    /\ BagCardinality(inflight) < (IF sequential THEN 1 ELSE MaxInFlight)
    /\ ~draining
    /\ carriesOn(0, nextAwait(1, entering(input)), entering(input), inflight, sequential)

\* "await this.dbInitialized" of a call in progress is over: the call gets to
\* the gates, and AddressValidationGate.execute reads the cache as it is now
Initialised(w, sequential) ==
    /\ w.at = 1
    /\ resumes(1, w, entering(w.input), sequential)

\* the lookup of a call in progress answers; the answer is cached
Answered(w, sequential) ==
    /\ w.at = 2
    /\ ~draining
    /\ (remoteLookup(w) => ~settling)
    /\ resumes(2, w, [w EXCEPT !.lookup = [kind |-> "answer"]], sequential)

\* the lookup of a call in progress fails or times out. The DEPENDENCY revision
\* caches nothing; the fallback revision caches the verdict of its local
\* validation.
Failed(w, errorMessage, sequential) ==
    /\ w.at = 2
    /\ errorMessage \in LookupFailures(w)
    /\ ~draining
    /\ ~settling
    /\ \E fallbackOk \in FallbackOutcomes(w.input) :
          resumes(2, w, [w EXCEPT !.lookup = [kind |-> "error", error |-> errorMessage,
                                              fallbackOk |-> fallbackOk]], sequential)

\* the merchant volume and threshold queries of a call in progress answer or
\* reject
MerchantQueried(w, configOk, sequential) ==
    /\ w.at = 3
    /\ ~draining
    /\ ~settling
    /\ resumes(3, w, [w EXCEPT !.configOk = configOk], sequential)

\* saveTransaction and saveAuditTrail of a call in progress resolve or reject
Persisted(w, persistOk, sequential) ==
    /\ w.at = 4
    /\ ~draining
    /\ ~settling
    /\ resumes(4, w, [w EXCEPT !.persistOk = persistOk], sequential)

Process == \E input \in ProcessInputs : Start(input, FALSE)

InitialisationOver == \E w \in BagToSet(inflight) : Initialised(w, FALSE)

LookupAnswers == \E w \in BagToSet(inflight) : Answered(w, FALSE)

LookupFails ==
    \E w \in BagToSet(inflight), e \in LookupErrors(policy) : Failed(w, e, FALSE)

MerchantLookupAnswers ==
    \E w \in BagToSet(inflight), configOk \in BOOLEAN : MerchantQueried(w, configOk, FALSE)

PersistenceOver ==
    \E w \in BagToSet(inflight), persistOk \in BOOLEAN : Persisted(w, persistOk, FALSE)

Next ==
    \/ Process
    \/ InitialisationOver
    \/ LookupAnswers
    \/ LookupFails
    \/ MerchantLookupAnswers
    \/ PersistenceOver

Spec == InitPipeline /\ [][Next]_vars

\* one call at a time: the next call starts after the previous one has completed
ProcessNext == \E input \in ProcessInputs : Start(input, TRUE)

InitialisationOverNext == \E w \in BagToSet(inflight) : Initialised(w, TRUE)

LookupAnswersNext == \E w \in BagToSet(inflight) : Answered(w, TRUE)

LookupFailsNext ==
    \E w \in BagToSet(inflight), e \in LookupErrors(policy) : Failed(w, e, TRUE)

MerchantLookupAnswersNext ==
    \E w \in BagToSet(inflight), configOk \in BOOLEAN : MerchantQueried(w, configOk, TRUE)

PersistenceOverNext ==
    \E w \in BagToSet(inflight), persistOk \in BOOLEAN : Persisted(w, persistOk, TRUE)

NextSequential ==
    \/ ProcessNext
    \/ InitialisationOverNext
    \/ LookupAnswersNext
    \/ LookupFailsNext
    \/ MerchantLookupAnswersNext
    \/ PersistenceOverNext

SpecSequential == InitPipeline /\ [][NextSequential]_vars


\* ------------------------------------------- one call, await by await
\* waiting is the call in progress, NoWait when there is none

\* the call, of which outcome is what process gives, runs on from its k-th
\* await point to the n-th, or settles
continuesTo(k, n, w, outcome) ==
    /\ addressCache' = IF k <= 2 /\ n > 2 THEN cacheAfter(w) ELSE addressCache
    /\ IF n <= Len(AwaitPoints)
       THEN /\ waiting' = [w EXCEPT !.at = n]
            /\ UNCHANGED last
       ELSE /\ waiting' = NoWait
            /\ last' = completed(outcome, w.input, w.cache, w.lookup, w.configOk)
    /\ UNCHANGED <<database, policy, ready, prev, cTx, cCtx, cResult,
                   merchantThresholds, rateTable, engines>>

continues(k, n, w) == continuesTo(k, n, w, outcomeOf(w))

\* the same while no lookup that lost its race is left running
runsOn(k, n, w) == continues(k, n, w) /\ UNCHANGED inflight

Proceed(k, w) == runsOn(k, nextAwait(k + 1, w), w)

\* process is called while no other call is in progress
Called ==
    /\ waiting = NoWait
    /\ \E input \in ProcessInputs : Proceed(0, entering(input))

\* initializeDatabase settles, as ready says
InitialisationSettles ==
    /\ waiting.at = 1
    /\ Proceed(1, waiting)

\* the lookup of a destination outside the US, which issues no query: the
\* DEPENDENCY revision answers it at once, the fallback revision when the timer
\* of validateWithExternalService has fired, with an answer or with the
\* simulated failure, after which fallbackValidation issues no query either
LookupResolves ==
    /\ waiting.at = 2
    /\ waiting.input.tx.destination.country # "US"
    /\ \/ Proceed(2, [waiting EXCEPT !.lookup = [kind |-> "answer"]])
       \/ \E e \in LookupFailures(waiting) :
              Proceed(2, [waiting EXCEPT !.lookup =
                              [kind |-> "error", error |-> e, fallbackOk |-> TRUE]])

\* the queries of the address lookup of a US destination answer or reject
LookupSettles ==
    /\ waiting.at = 2
    /\ waiting.input.tx.destination.country = "US"
    /\ \/ Proceed(2, [waiting EXCEPT !.lookup = [kind |-> "answer"]])
       \/ \E e \in LookupFailures(waiting) \ {"Database service timeout"},
             fallbackOk \in FallbackOutcomes(waiting.input) :
              Proceed(2, [waiting EXCEPT !.lookup =
                              [kind |-> "error", error |-> e, fallbackOk |-> fallbackOk]])

\* the timer of validateWithDatabaseService fires before the queries answer
LookupTimesOut ==
    /\ waiting.at = 2
    /\ policy = "dependency"
    /\ remoteLookup(waiting)
    /\ Proceed(2, [waiting EXCEPT !.lookup = TimedOutLookup])

\* the merchant volume and threshold queries answer or reject
MerchantLookupSettles ==
    /\ waiting.at = 3
    /\ \E configOk \in BOOLEAN : Proceed(3, [waiting EXCEPT !.configOk = configOk])

\* saveTransaction and saveAuditTrail resolve or reject
PersistenceSettles ==
    /\ waiting.at = 4
    /\ \E persistOk \in BOOLEAN : Proceed(4, [waiting EXCEPT !.persistOk = persistOk])

NextResponsive ==
    \/ Called
    \/ InitialisationSettles
    \/ LookupResolves
    \/ LookupSettles
    \/ LookupTimesOut
    \/ MerchantLookupSettles
    \/ PersistenceSettles

\* A timer set with setTimeout fires, and a queued continuation runs, so a
\* lookup that issues no query settles; nothing makes the database answer.
SpecResponsive ==
    InitPipeline /\ [][NextResponsive]_vars
    /\ WF_vars(LookupTimesOut) /\ WF_vars(LookupResolves)

\* ------------------------------------------------ applicability harness
\* the rows the merchant_thresholds table may hold for a merchant and state:
\* none, or one with a volume below, at or above its threshold
RowsFor(merchantId, state) ==
    { {} } \cup
    { { [merchant_id |-> merchantId, state |-> state, threshold_amount |-> t,
         current_volume |-> v] } :
      v \in {0, 50000, 99999, 100000, 100001, 2300000}, t \in {100000, 250000} }

ThresholdTables ==
    { a \cup b : a \in RowsFor("merchant_456", "CA"), b \in RowsFor("merchant_789", "NY") }

InitApplicability ==
    /\ database \in BOOLEAN
    /\ merchantThresholds \in (IF database THEN ThresholdTables ELSE {MerchantThresholdRows})
    /\ policy = "dependency"
    /\ ready = TRUE
    /\ addressCache = EmptyCache
    /\ inflight = EmptyBag
    /\ last = NoCall
    /\ prev = NoCall
    /\ waiting = NoWait
    /\ rateTable = RateTableLoaded
    /\ engines = NoEngines
    /\ cTx = validTransactionCA
    /\ cCtx = NoContext
    /\ cResult = [done |-> FALSE, exemptionData |-> NoExemptionData, calc |-> NoCalc]

\* ApplicabilityGate.execute on a transaction that got to it
ApplicabilityRuns ==
    /\ \E tx \in { validTransactionCA, transactionMerchantBelowThreshold,
                   transactionUnknownMerchant } :
           last' = [kind |-> "gate", input |-> [tx |-> tx, ctx |-> NoContext],
                    results |-> << ApplicabilityGate_execute(database, merchantThresholds,
                                                            tx) >>]
    /\ UNCHANGED <<database, policy, ready, addressCache, inflight, prev, waiting,
                   merchantThresholds, cTx, cCtx, cResult,
                   rateTable, engines>>

NextApplicability == ApplicabilityRuns

SpecApplicability == InitApplicability /\ [][NextApplicability]_vars

\* ---------------------------------------------- input validation harness
\* item lists InputValidationGate may be handed: well-formed, with one field
\* missing, with a second item at fault, holding null or undefined, empty, with
\* a NaN amount, with amounts whose sum is no decimal number of cents
ValidationItemLists == {
    <<>>,
    software100,
    << [id |-> "item_1", category |-> "SOFTWARE", amount |-> 4000],
       [id |-> "item_2", category |-> "FOOD", amount |-> 6000] >>,
    << [id |-> "", category |-> "SOFTWARE", amount |-> 10000] >>,
    << [id |-> "item_1", category |-> "", amount |-> 10000] >>,
    << [id |-> "item_1", category |-> "SOFTWARE", amount |-> -1000] >>,
    << [id |-> "", category |-> "", amount |-> -1000] >>,
    << [id |-> "item_1", category |-> "SOFTWARE", amount |-> -1000],
       [id |-> "", category |-> "FOOD", amount |-> 6000] >>,
    << [id |-> "item_1", category |-> "SOFTWARE", amount |-> 10000],
       [id |-> "item_2", category |-> "", amount |-> 6000] >>,
    << Null >>,
    << UndefinedObject >>,
    << [id |-> "item_1", category |-> "SOFTWARE", amount |-> 10000], Null >>,
    << [id |-> "item_1", category |-> "SOFTWARE", amount |-> NaN] >>,
    << [id |-> "item_1", category |-> "SOFTWARE", amount |-> 10],
       [id |-> "item_2", category |-> "FOOD", amount |-> 20] >>,
    << [id |-> "item_1", category |-> "SOFTWARE", amount |-> 7] >> }

ValidationDestinations ==
    { Null, UndefinedObject } \cup
    [country : {"US", ""}, state : {"CA", ""}, city : {"Los Angeles", ""}]

\* the totals: of the 100.00 lists, one and two cents above it, of the small
\* lists and one cent from them, negative, NaN
ValidationTotals == {10000, 10001, 10002, 30, 6, 8, -1, NaN}

\* the transactions the gate is handed: every field either well-formed or not,
\* the items an array or missing
ValidationTransactions ==
    [transactionId : {"txn_123", ""}, merchantId : {"merchant_456", ""},
     customerId : {"customer_789", ""}, destination : ValidationDestinations,
     items : ValidationItemLists, totalAmount : ValidationTotals,
     currency : {"USD", "EUR", ""}]
    \cup
    [transactionId : {"txn_123", ""}, merchantId : {"merchant_456", ""},
     customerId : {"customer_789", ""}, destination : ValidationDestinations,
     totalAmount : ValidationTotals, currency : {"USD", "EUR", ""}]

InitValidation ==
    /\ cTx \in ValidationTransactions
    /\ database = FALSE
    /\ policy = "dependency"
    /\ ready = TRUE
    /\ merchantThresholds = MerchantThresholdRows
    /\ addressCache = EmptyCache
    /\ inflight = EmptyBag
    /\ last = NoCall
    /\ prev = NoCall
    /\ waiting = NoWait
    /\ rateTable = RateTableLoaded
    /\ engines = NoEngines
    /\ cCtx = NoContext
    /\ cResult = [done |-> FALSE, exemptionData |-> NoExemptionData, calc |-> NoCalc]

\* InputValidationGate.execute on the transaction
Validate ==
    /\ last = NoCall
    /\ last' = [kind |-> "validated", input |-> [tx |-> cTx, ctx |-> NoContext],
                outcome |-> InputValidationGate_execute(cTx)]
    /\ UNCHANGED <<database, policy, ready, addressCache, inflight, prev, waiting,
                   merchantThresholds, cTx, cCtx, cResult,
                   rateTable, engines>>

NextValidation == Validate

SpecValidation == InitValidation /\ [][NextValidation]_vars

\* ---------------------------------------------------- rate table start-up
\* RateTable's static fields before any initialize has run
RateTableEmpty == [initialized |-> FALSE, instance |-> Null, constructed |-> 0]

\* where an engine's initializeDatabase stands: not constructed, awaiting
\* db.connect, awaiting getJurisdictionRates or getCategoryModifiers inside
\* RateTable.initialize, done with a FeeCalculator, or in its catch block
NotConstructed == [pc |-> "none", feeCalculator |-> Null]

Engines == 1..MaxEngines

\* the states and cities a lookup is made for
LookupPlaces == {
    [state |-> "CA", city |-> "Los Angeles"], [state |-> "CA", city |-> "San Diego"],
    [state |-> "NY", city |-> "Buffalo"], [state |-> "TX", city |-> "Austin"],
    [state |-> "FL", city |-> "Miami"] }

LookupCategories == {"SOFTWARE", "FOOD", "GIFT_CARD"}

InitRateTable ==
    /\ database = TRUE
    /\ rateTable = RateTableEmpty
    /\ engines = [e \in Engines |-> NotConstructed]
    /\ policy = "dependency"
    /\ ready = FALSE
    /\ merchantThresholds = MerchantThresholdRows
    /\ addressCache = EmptyCache
    /\ inflight = EmptyBag
    /\ last = NoCall
    /\ prev = NoCall
    /\ waiting = NoWait
    /\ cTx = validTransactionCA
    /\ cCtx = NoContext
    /\ cResult = [done |-> FALSE, exemptionData |-> NoExemptionData, calc |-> NoCalc]

\* the engine's step leaves everything but the rate table and the engines alone
engineStep(e, pc, feeCalculator) ==
    /\ engines' = [engines EXCEPT ![e] = [pc |-> pc, feeCalculator |-> feeCalculator]]
    /\ UNCHANGED <<database, policy, ready, addressCache, inflight, last, prev, waiting,
                   merchantThresholds, cTx, cCtx, cResult>>

\* new ComplianceEngine(): the constructor starts initializeDatabase, which
\* runs up to its await of db.connect()
Construct(e) ==
    /\ engines[e].pc = "none"
    /\ engineStep(e, "connecting", Null)
    /\ UNCHANGED rateTable

\* db.connect() settles. On success RateTable.initialize is entered: it returns
\* at once when initialized is set, and the engine builds its FeeCalculator on
\* getInstance(); otherwise it awaits getJurisdictionRates.
ConnectSettles(e) ==
    /\ engines[e].pc = "connecting"
    /\ \/ engineStep(e, "failed", Null)
       \/ IF rateTable.initialized
          THEN engineStep(e, "ready", rateTable.instance)
          ELSE engineStep(e, "loading rates", Null)
    /\ UNCHANGED rateTable

\* getJurisdictionRates answers, and initialize goes on to await
\* getCategoryModifiers, or it rejects
RatesSettle(e) ==
    /\ engines[e].pc = "loading rates"
    /\ \/ engineStep(e, "failed", Null)
       \/ engineStep(e, "loading modifiers", Null)
    /\ UNCHANGED rateTable

\* RateTable.instance = new RateTable(...); RateTable.initialized = true
assignInstance(table) ==
    [initialized |-> TRUE, instance |-> [object |-> table.constructed + 1],
     constructed |-> table.constructed + 1]

\* getCategoryModifiers answers: initialize constructs the instance and sets
\* initialized, and the engine builds its FeeCalculator on getInstance(); or
\* it rejects
ModifiersSettle(e) ==
    /\ engines[e].pc = "loading modifiers"
    /\ \/ /\ engineStep(e, "failed", Null)
          /\ UNCHANGED rateTable
       \/ /\ rateTable' = assignInstance(rateTable)
          /\ engineStep(e, "ready", assignInstance(rateTable).instance)

\* a calculation of a ready engine looks the four rates up in its rate table
RateLookup(e) ==
    /\ engines[e].pc = "ready"
    /\ \E place \in LookupPlaces, category \in LookupCategories :
           last' = [kind |-> "lookup", table |-> engines[e].feeCalculator,
                    stateRate |-> getStateRate(TRUE, place.state),
                    countyRate |-> getCountyRate(TRUE, place.state, place.city),
                    cityRate |-> getCityRate(TRUE, place.state, place.city),
                    categoryModifier |-> getCategoryModifier(TRUE, category)]
    /\ UNCHANGED <<database, policy, ready, addressCache, inflight, prev, waiting,
                   merchantThresholds, cTx, cCtx, cResult, rateTable, engines>>

NextRateTable ==
    \E e \in Engines :
        \/ Construct(e)
        \/ ConnectSettles(e)
        \/ RatesSettle(e)
        \/ ModifiersSettle(e)
        \/ RateLookup(e)

SpecRateTable == InitRateTable /\ [][NextRateTable]_vars

\* ------------------------------------------- lookup against its timer
\* validateWithDatabaseService of the DEPENDENCY revision, one call at a time:
\* Promise.race([validationPromise, timeoutPromise]). The queries of a lookup
\* whose timer fired first go on running and settle later.
InitTimeout ==
    /\ database \in BOOLEAN
    /\ policy = "dependency"
    /\ ready = TRUE
    /\ addressCache = EmptyCache
    /\ inflight = EmptyBag
    /\ last = NoCall
    /\ prev = NoCall
    /\ waiting = NoWait
    /\ rateTable = RateTableLoaded
    /\ engines = NoEngines
    /\ merchantThresholds = MerchantThresholdRows
    /\ cTx = validTransactionCA
    /\ cCtx = NoContext
    /\ cResult = [done |-> FALSE, exemptionData |-> NoExemptionData, calc |-> NoCalc]

\* mutant: the late answer is written to the cache
lateAnswer_cached(cache, destination, isValid) == cacheWrite(cache, destination, isValid)

\* the cache once the queries of a lookup settle after the race is decided:
\* nothing awaits validationPromise any more, its value is dropped
lateAnswer(cache, destination, isValid) == cache

\* process is called while no other call is in progress; it runs to its first
\* await: the race of its address lookup when it gets there and the cache has
\* no entry for the key
RaceStarts ==
    /\ waiting = NoWait
    /\ BagCardinality(inflight) < MaxInFlight
    /\ \E input \in ProcessInputs : Proceed(0, entering(input))

\* the queries settle before the timer: the answer is cached, a rejection goes
\* to handleDatabaseFailure; the call runs on to its next await
QueriesWin ==
    /\ waiting.at = 2
    /\ \/ Proceed(2, [waiting EXCEPT !.lookup = [kind |-> "answer"]])
       \/ /\ "connection refused" \in LookupFailures(waiting)
          /\ Proceed(2, [waiting EXCEPT !.lookup =
                             [kind |-> "error", error |-> "connection refused",
                              fallbackOk |-> TRUE]])

\* the timer fires before the queries settle: the race rejects with 'Database
\* service timeout' and the call runs on to its next await; the queries go on
\* running
TimerWins ==
    /\ waiting.at = 2
    /\ TimedOutLookup.error \in LookupFailures(waiting)
    /\ continues(2, nextAwait(3, [waiting EXCEPT !.lookup = TimedOutLookup]),
                 [waiting EXCEPT !.lookup = TimedOutLookup])
    /\ inflight' = inflight (+) SetToBag({waiting.input})

\* the queries of a lookup that lost its race settle
LateAnswerArrives ==
    /\ \E input \in BagToSet(inflight) :
          /\ inflight' = inflight (-) SetToBag({input})
          /\ addressCache' =
                 lateAnswer(addressCache, input.tx.destination,
                            performDatabaseValidation(input.tx.destination.country,
                                                      input.tx.destination.state,
                                                      input.tx.destination.city))
    /\ UNCHANGED <<database, policy, ready, last, prev, waiting, cTx, cCtx, cResult,
                   merchantThresholds, rateTable, engines>>

NextTimeout ==
    \/ RaceStarts
    \/ InitialisationSettles
    \/ QueriesWin
    \/ TimerWins
    \/ MerchantLookupSettles
    \/ PersistenceSettles
    \/ LateAnswerArrives

SpecTimeout == InitTimeout /\ [][NextTimeout]_vars

\* ------------------------------------------- DatabaseClient.transaction
\* the statements of saveTransaction's callback for a transaction of n items
callbackStatements(n) ==
    << "INSERT INTO transactions", "DELETE FROM transaction_items" >>
    \o [i \in 1..n |-> "INSERT INTO transaction_items"]

\* the statements transaction awaits inside its try block, in order
tryStatements(n) == << "BEGIN" >> \o callbackStatements(n) \o << "COMMIT" >>

InitTransaction ==
    /\ database = TRUE
    /\ policy = "dependency"
    /\ ready = TRUE
    /\ addressCache = EmptyCache
    /\ inflight = EmptyBag
    /\ last = NoCall
    /\ prev = NoCall
    /\ waiting = NoWait
    /\ rateTable = RateTableLoaded
    /\ engines = NoEngines
    /\ merchantThresholds = MerchantThresholdRows
    /\ cTx = validTransactionCA
    /\ cCtx = NoContext
    /\ cResult = [done |-> FALSE, exemptionData |-> NoExemptionData, calc |-> NoCalc]

\* the call of transaction settles: what it issued on its client, how often it
\* released the client, and the promise it returned
transactionSettled(w, outcome, error) ==
    [kind |-> "transaction", items |-> w.items, acquired |-> w.acquired,
     issued |-> w.issued, released |-> w.released, outcome |-> outcome,
     error |-> error, failedAt |-> w.failedAt]

\* "finally { client.release() }"
releaseClient(w) == [w EXCEPT !.released = @ + 1]

\* saveTransaction calls db.transaction for a transaction of n items, which
\* awaits getClient
TransactionCalled ==
    /\ waiting = NoWait
    /\ \E n \in 1..MaxItems :
          waiting' = [at |-> 1, stage |-> "getClient", items |-> n, acquired |-> FALSE,
                      issued |-> <<>>, released |-> 0, failedAt |-> ""]
    /\ UNCHANGED <<database, policy, cTx, cCtx, cResult, ready, addressCache, inflight,
                   last, prev, merchantThresholds, rateTable, engines>>

\* getClient settles: with a client, and BEGIN is issued, or with the pool's
\* error, which transaction lets through before its try block
ClientSettles ==
    /\ waiting.at # 0 /\ waiting.stage = "getClient"
    /\ \/ /\ waiting' = [waiting EXCEPT !.stage = "try", !.acquired = TRUE,
                                          !.issued = << "BEGIN" >>]
          /\ UNCHANGED last
       \/ /\ waiting' = NoWait
          /\ last' = transactionSettled(waiting, "rejected", "getClient")
    /\ UNCHANGED <<database, policy, cTx, cCtx, cResult, ready, addressCache, inflight,
                   prev, merchantThresholds, rateTable, engines>>

\* the statement awaited in the try block resolves: the next one is issued, or,
\* after COMMIT, the result is returned and the client released
StatementResolves ==
    /\ waiting.at # 0 /\ waiting.stage = "try"
    /\ IF waiting.at < Len(tryStatements(waiting.items))
       THEN /\ waiting' = [waiting EXCEPT
                              !.at = @ + 1,
                              !.issued = Append(@, tryStatements(waiting.items)[waiting.at + 1])]
            /\ UNCHANGED last
       ELSE /\ waiting' = NoWait
            /\ last' = transactionSettled(releaseClient(waiting), "resolved", "")
    /\ UNCHANGED <<database, policy, cTx, cCtx, cResult, ready, addressCache, inflight,
                   prev, merchantThresholds, rateTable, engines>>

\* the statement awaited in the try block rejects: the catch block issues
\* ROLLBACK
StatementRejects ==
    /\ waiting.at # 0 /\ waiting.stage = "try"
    /\ waiting' = [waiting EXCEPT !.stage = "catch",
                                  !.failedAt = tryStatements(waiting.items)[waiting.at],
                                  !.issued = Append(@, "ROLLBACK")]
    /\ UNCHANGED <<database, policy, cTx, cCtx, cResult, ready, addressCache, inflight,
                   last, prev, merchantThresholds, rateTable, engines>>

\* ROLLBACK settles: resolved, the caught error is thrown again; rejected, its
\* own error leaves the catch block; the client is released either way
RollbackSettles ==
    /\ waiting.at # 0 /\ waiting.stage = "catch"
    /\ \E error \in { waiting.failedAt, "ROLLBACK" } :
          last' = transactionSettled(releaseClient(waiting), "rejected", error)
    /\ waiting' = NoWait
    /\ UNCHANGED <<database, policy, cTx, cCtx, cResult, ready, addressCache, inflight,
                   prev, merchantThresholds, rateTable, engines>>

NextTransaction ==
    \/ TransactionCalled
    \/ ClientSettles
    \/ StatementResolves
    \/ StatementRejects
    \/ RollbackSettles

SpecTransaction == InitTransaction /\ [][NextTransaction]_vars

\* ------------------------------------------------- exemption harness
\* ExemptionGate.execute on the transactions that can get to it: any
\* destination, items of every category, two FOOD items of different ids
ExemptionItemPool ==
    ItemPool \cup { [id |-> "item_2", category |-> "FOOD", amount |-> 2500] }

ExemptionItemLists == UNION { [1..k -> ExemptionItemPool] : k \in 1..(MaxItems - 1) }

ExemptionTransactions ==
    { [transactionId |-> "txn_exempt_item", merchantId |-> "merchant_456",
       customerId |-> "customer_789", destination |-> d, items |-> its,
       totalAmount |-> SumSeq(amountsOf(its)), currency |-> "USD"] :
      d \in CalcDestinations, its \in ExemptionItemLists }

\* context omitted, an exempt customer type, a customer type that is not exempt
ExemptionContexts ==
    { NoContext, [customerType |-> "WHOLESALE"], [customerType |-> "RETAIL"] }

InitExemption ==
    /\ database \in BOOLEAN
    /\ policy = "dependency"
    /\ cTx \in ExemptionTransactions
    /\ cCtx \in ExemptionContexts
    /\ cResult = [done |-> FALSE, exemptionData |-> NoExemptionData, calc |-> NoCalc]
    /\ ready = TRUE
    /\ addressCache = EmptyCache
    /\ inflight = EmptyBag
    /\ last = NoCall
    /\ prev = NoCall
    /\ waiting = NoWait
    /\ rateTable = RateTableLoaded
    /\ engines = NoEngines
    /\ merchantThresholds = MerchantThresholdRows

\* ExemptionGate.execute(cTx, cCtx)
ExemptionRuns ==
    /\ last = NoCall
    /\ last' = [kind |-> "gate", input |-> [tx |-> cTx, ctx |-> cCtx],
                results |-> << ExemptionGate_execute(cTx, cCtx) >>]
    /\ UNCHANGED <<database, policy, cTx, cCtx, cResult, ready, addressCache, inflight,
                   prev, waiting, merchantThresholds, rateTable, engines>>

NextExemption == ExemptionRuns

SpecExemption == InitExemption /\ [][NextExemption]_vars

\* ------------------------------------------------- response harness
\* one call of process on a transaction of several items, await by await: the
\* transactions of merchant_456 over the item lists, and the three rejected
\* transactions of the pipeline harness
ResponseContexts == ExemptionContexts

InitResponse ==
    /\ database \in BOOLEAN
    /\ policy \in {"fallback", "dependency"}
    /\ cTx \in ResponseTransactions
    /\ cCtx \in ResponseContexts
    /\ cResult = [done |-> FALSE, exemptionData |-> NoExemptionData, calc |-> NoCalc]
    /\ ready = TRUE
    /\ addressCache = EmptyCache
    /\ inflight = EmptyBag
    /\ last = NoCall
    /\ prev = NoCall
    /\ waiting = NoWait
    /\ rateTable = RateTableLoaded
    /\ engines = NoEngines
    /\ merchantThresholds = MerchantThresholdRows

\* the call w of the harness, of which outcome is what process gives, runs on
\* from its k-th await point to the next one it waits at, or settles
responds(k, w, outcome) ==
    /\ continuesTo(k, nextAwaitWhen(k + 1, w, outcome.kind = "returned"), w, outcome)
    /\ UNCHANGED inflight

\* the ways the address lookup of the call can have gone once it has settled:
\* an answer, a failure of the queries or of the simulated service, the timer
\* of validateWithDatabaseService
lookedUp(w) ==
    { [w EXCEPT !.lookup = [kind |-> "answer"]] }
    \cup { [w EXCEPT !.lookup = [kind |-> "error", error |-> e, fallbackOk |-> fallbackOk]] :
               e \in LookupFailures(w), fallbackOk \in FallbackOutcomes(w.input) }

\* process(cTx, cCtx), the only call of the harness, is called and runs to its
\* first await
Respond ==
    /\ waiting = NoWait
    /\ last = NoCall
    /\ \E w \in {entering([tx |-> cTx, ctx |-> cCtx])} :
          responds(0, w, process(ready, envOf(w)))

\* initializeDatabase settles
RespondInitialised ==
    /\ waiting.at = 1
    /\ responds(1, waiting, process(ready, envOf(waiting)))

\* the address lookup settles: the cache is written, the call goes on to the
\* merchant queries or to the persistence, or settles
RespondLookedUp ==
    /\ waiting.at = 2
    /\ \E w \in lookedUp(waiting) : responds(2, w, process(ready, envOf(w)))

\* the merchant volume and threshold queries answer or reject
RespondMerchantKnown ==
    /\ waiting.at = 3
    /\ \E w \in { [waiting EXCEPT !.configOk = configOk] : configOk \in BOOLEAN } :
          responds(3, w, process(ready, envOf(w)))

\* saveTransaction and saveAuditTrail resolve or reject: the call settles
RespondPersisted ==
    /\ waiting.at = 4
    /\ \E w \in { [waiting EXCEPT !.persistOk = persistOk] : persistOk \in BOOLEAN } :
          responds(4, w, process(ready, envOf(w)))

NextResponse ==
    \/ Respond
    \/ RespondInitialised
    \/ RespondLookedUp
    \/ RespondMerchantKnown
    \/ RespondPersisted

SpecResponse == InitResponse /\ [][NextResponse]_vars


\* ------------------------------------------------------------------ claims
calcItems == cResult.calc.items

calcState == cTx.destination.state

calcCity == cTx.destination.city

\* C1: in every result of calculateFees the item fees add up to totalFees within one
\* cent: |sum of items[i].totalFee - totalFees| <= 0.01
C1_SumConsistency ==
    cResult.done => Abs(sumTotalFee(calcItems) - cResult.calc.totalFees) <= 1

\* a result over four items, exempt and non-exempt mixed, with fractional amounts and fees
C1_Witness ==
    /\ cResult.done
    /\ Len(calcItems) >= 4
    /\ cResult.calc.totalFees > 0
    /\ \E i, j, k \in 1..Len(calcItems) :
          /\ isItemExemptInCalculation(cTx.items[i], cResult.exemptionData)
          /\ ~isItemExemptInCalculation(cTx.items[j], cResult.exemptionData)
          /\ calcItems[j].totalFee > 0
          /\ calcItems[j].amount % 100 # 0
          /\ ~isItemExemptInCalculation(cTx.items[k], cResult.exemptionData)
          /\ k # j
          /\ calcItems[k].totalFee > 0

\* C6: when customerExemptions is non-empty every item's totalFee is 0 and totalFees is 0
C6_CustomerExemptionZeroes ==
    (cResult.done /\ Len(cResult.exemptionData.customerExemptions) > 0)
    => /\ \A i \in 1..Len(calcItems) : calcItems[i].totalFee = 0
       /\ cResult.calc.totalFees = 0

\* an exempt customer whose item would otherwise carry a fee
C6_Witness ==
    /\ cResult.done
    /\ Len(cResult.exemptionData.customerExemptions) > 0
    /\ \E i \in 1..Len(cTx.items) :
          /\ ~isItemExempt(cTx.items[i].category, calcState)
          /\ calculateItemFees(database, cTx.items[i], calcState, calcCity).totalFee > 0
          /\ calcItems[i].totalFee = 0

\* C7: with no customer exemption, an item whose own (category, state) is not in the
\* item-exemption rule set gets its normal fee, whatever the other items are, items
\* with the same id included
C7_OnlyExemptItemZeroed ==
    (cResult.done /\ Len(cResult.exemptionData.customerExemptions) = 0)
    => \A i \in 1..Len(calcItems) :
          ~isItemExempt(cTx.items[i].category, calcState)
          => calcItems[i].totalFee
             = calculateItemFees(database, cTx.items[i], calcState, calcCity).totalFee

\* the sum of the component amounts a breakdown shows
componentSum(fees) ==
    fees.stateRate.amount
    + (IF fees.countyRate.present THEN fees.countyRate.amount ELSE 0)
    + (IF fees.cityRate.present THEN fees.cityRate.amount ELSE 0)
    + fees.categoryModifier.amount

\* C8: for a non-exempt item every component amount is rate x amount rounded to
\* 2 decimals, and totalFee is the sum of those rounded component amounts
C8_TotalIsSumOfRoundedComponents ==
    cResult.done
    => \A i \in 1..Len(calcItems) :
          ~isItemExemptInCalculation(cTx.items[i], cResult.exemptionData)
          => LET f == calcItems[i].fees
                 a == cTx.items[i].amount
             IN /\ f.stateRate.amount = ToFixed2(a * f.stateRate.rate)
                /\ f.countyRate.present
                   => f.countyRate.amount = ToFixed2(a * f.countyRate.rate)
                /\ f.cityRate.present
                   => f.cityRate.amount = ToFixed2(a * f.cityRate.rate)
                /\ f.categoryModifier.amount = ToFixed2(a * f.categoryModifier.rate)
                /\ calcItems[i].totalFee = componentSum(f)

\* totalFees / totalAmount in units of 0.0001, rounded down
rateBelow(totalFees, totalAmount) == (totalFees * 10000) \div totalAmount

\* totalFees / totalAmount lies halfway between two multiples of 0.0001
rateOnTie(totalFees, totalAmount) ==
    (2 * totalFees * 10000) % totalAmount = 0
    /\ ((2 * totalFees * 10000) \div totalAmount) % 2 = 1

\* totalFees / totalAmount rounded to 4 decimals: the nearest multiple of 0.0001,
\* and halfway between two of them the upper one (half up) or the even one
roundedTo4(rate, totalFees, totalAmount) ==
    /\ 2 * Abs(rate * totalAmount - totalFees * 10000) <= totalAmount
    /\ rateOnTie(totalFees, totalAmount) =>
           \/ rate = rateBelow(totalFees, totalAmount) + 1
           \/ rate % 2 = 0

\* C9: effectiveRate is totalFees / totalAmount rounded to 4 decimals when
\* totalAmount > 0, and 0 when totalAmount is 0
C9_EffectiveRate ==
    cResult.done
    => IF cTx.totalAmount > 0
       THEN roundedTo4(cResult.calc.effectiveRate, cResult.calc.totalFees, cTx.totalAmount)
       ELSE cResult.calc.effectiveRate = 0

\* the internal result of the named gate in a completed call, as a set (empty
\* when the gate did not return a result)
resultsOf(call, gateName) ==
    { call.results[i] : i \in { j \in 1..Len(call.results) :
                                   call.results[j].gateName = gateName } }

failedGates(call) == { i \in 1..Len(call.results) : ~call.results[i].passed }

allFourPassed(call) ==
    /\ Len(call.results) = 4
    /\ \A i \in 1..4 : call.results[i].gateName = GateNames[i] /\ call.results[i].passed

hasCalculation(call) == "calculation" \in DOMAIN call.response

\* C2: in every response returned by process, calculation is present iff status is
\* CALCULATED, and status is CALCULATED iff all four gates passed.
C2_CalculationIffCalculated ==
    last.kind = "returned" =>
        /\ hasCalculation(last) <=> last.response.status = "CALCULATED"
        /\ last.response.status = "CALCULATED" <=> allFourPassed(last)

C2_Witness ==
    /\ last.kind = "returned"
    /\ last.response.status = "CALCULATED"
    /\ hasCalculation(last)
    /\ allFourPassed(last)
    /\ last.response.calculation.totalFees > 0

\* C3: when a gate fails the orchestrator stops at once: the failing gate is the
\* last one executed and the last one in the results, which hold exactly the
\* gates of the order up to it; passed is false and the response has no calculation.
C3_ShortCircuit ==
    (last.kind # "none" /\ failedGates(last) # {}) =>
        \A k \in failedGates(last) :
            /\ k = Len(last.results)
            /\ last.executed = SubSeq(GateNames, 1, k)
            /\ \A i \in 1..k : last.results[i].gateName = GateNames[i]
            /\ last.kind = "returned" =>
                   /\ ~last.passed
                   /\ ~hasCalculation(last)

C3_Witness ==
    /\ last.kind = "returned"
    /\ Len(last.results) = 2
    /\ last.results[2].gateName = "AddressValidation"
    /\ ~last.results[2].passed
    /\ last.executed = << "InputValidation", "AddressValidation" >>
    /\ ~hasCalculation(last)

\* C4: every call of process ends by returning a response whose status is
\* CALCULATED or REJECTED; no call ends without a response.
C4_AlwaysResponds ==
    last.kind # "none" =>
        /\ last.kind = "returned"
        /\ last.response.status \in {"CALCULATED", "REJECTED"}

\* C5: whatever executions came before, AddressValidationGate passes a transaction
\* only if its country is US, its state is supported and its city is supported
\* for that state.
C5_PassesOnlySupportedUS ==
    last.kind # "none" =>
        \A r \in resultsOf(last, "AddressValidation") :
            r.passed =>
                /\ last.input.tx.destination.country = "US"
                /\ isStateSupported(last.input.tx.destination.state)
                /\ isCitySupported(last.input.tx.destination.state,
                                   last.input.tx.destination.city)

\* what two calls are compared on: status, calculation, pass/fail of every gate
calculationOf(call) == IF hasCalculation(call) THEN call.response.calculation ELSE Null

gateOutcomes(call) ==
    [i \in 1..Len(call.response.gates) |->
        << call.response.gates[i].name, call.response.gates[i].passed >>]

sameOutcome(a, b) ==
    /\ a.response.status = b.response.status
    /\ calculationOf(a) = calculationOf(b)
    /\ gateOutcomes(a) = gateOutcomes(b)
    /\ [i \in 1..Len(a.results) |-> << a.results[i].gateName, a.results[i].passed >>]
       = [i \in 1..Len(b.results) |-> << b.results[i].gateName, b.results[i].passed >>]

\* the collaborators of process answered the two calls alike: where both calls
\* made the address lookup, it answered both or failed both, and the queries of
\* the fallback validation after it ended alike; where both calls asked for the
\* merchant's volume and threshold, the queries ended alike
sameCollaborators(a, b) ==
    /\ (a.lookup.kind # "none" /\ b.lookup.kind # "none") =>
           /\ a.lookup.kind = b.lookup.kind
           /\ a.lookup.kind = "error" => a.lookup.fallbackOk = b.lookup.fallbackOk
    /\ (a.merchantLookup # "none" /\ b.merchantLookup # "none") =>
           a.merchantLookup = b.merchantLookup

\* the two calls ended alike: both returned, with the same status, calculation
\* and gate outcomes, or both threw the same error
sameResult(a, b) ==
    /\ a.kind = b.kind
    /\ a.kind = "threw" => a.error = b.error
    /\ a.kind = "returned" => sameOutcome(a, b)

\* C10: two calls of process, one after the other, with the same transaction
\* and the same context end alike when the collaborators answer both alike
\* (idempotent given idempotent collaborators): the same status, the same
\* calculation and the same pass/fail outcome for every gate
C10_Idempotence ==
    (prev.kind # "none" /\ last.kind # "none" /\ prev.input = last.input
     /\ sameCollaborators(prev, last)) =>
        sameResult(prev, last)

\* Los Angeles, CA calculated twice in a row, the first call on the answer of
\* its lookup and the second on the cache
C10_Witness ==
    /\ prev.kind = "returned" /\ last.kind = "returned"
    /\ prev.input = last.input
    /\ sameCollaborators(prev, last)
    /\ prev.response.status = "CALCULATED"
    /\ \E r \in resultsOf(prev, "AddressValidation") : r.metadata.source # "cache"
    /\ \E r \in resultsOf(last, "AddressValidation") : r.metadata.source = "cache"
    /\ sameResult(prev, last)

\* ------------------------------------------------- C11
\* the call whose persistence step failed
persistenceFailed(call) ==
    /\ call.kind # "none"
    /\ "persisted" \in DOMAIN call
    /\ call.persisted = "failed"

\* C11: when saving the transaction or its audit trail fails, process still
\* returns, and what it returns is the response built before persistence
C11_PersistenceFailureIsSwallowed ==
    persistenceFailed(last) =>
        /\ last.kind = "returned"
        /\ last.response = last.built

\* a calculated response returned although saving it failed
C11_Witness ==
    /\ persistenceFailed(last)
    /\ last.kind = "returned"
    /\ last.response.status = "CALCULATED"
    /\ last.response = last.built

\* ------------------------------------------------- C12
\* C12: no await of process waits without bound, so every call of process
\* eventually settles, whether or not the database ever answers
C12_EveryCallSettles == (waiting.at # 0) ~> (waiting.at = 0)

\* ------------------------------------------------- C13
\* the messages of a result that names the destination it could not validate
unavailableMessages(destination) ==
    { "Address validation service unavailable: " \o e \o
      ". Cannot validate destination: " \o destination.city \o ", " \o destination.state :
      e \in LookupErrors("dependency") }

\* the call missed the cache and its lookup failed or timed out
lookupFailed(call) == call.kind # "none" /\ call.lookup.kind = "error"

\* C13: under the DEPENDENCY policy a call whose address lookup failed or timed
\* out gets a failed AddressValidation result with errorType DEPENDENCY and a
\* message naming the city and state, and its response is REJECTED
C13_DependencyPolicy ==
    (policy = "dependency" /\ lookupFailed(last)) =>
        /\ last.kind = "returned"
        /\ last.response.status = "REJECTED"
        /\ \E r \in resultsOf(last, "AddressValidation") :
               /\ ~r.passed
               /\ r.errorType = "DEPENDENCY"
               /\ r.message \in unavailableMessages(last.input.tx.destination)
        /\ Len(last.results) = 2

\* a timed-out lookup for Los Angeles, CA rejected under the DEPENDENCY policy
C13_Witness ==
    /\ policy = "dependency"
    /\ lookupFailed(last)
    /\ last.lookup.error = "Database service timeout"
    /\ last.input.tx = validTransactionCA
    /\ last.kind = "returned"
    /\ last.response.status = "REJECTED"
    /\ \E r \in resultsOf(last, "AddressValidation") :
           /\ r.errorType = "DEPENDENCY"
           /\ r.message = "Address validation service unavailable: Database service timeout. Cannot validate destination: Los Angeles, CA"

\* ------------------------------------------------- C14
\* the verdict of the supported-jurisdiction rules on the call's destination
localVerdict(call) ==
    performDatabaseValidation(call.input.tx.destination.country,
                              call.input.tx.destination.state,
                              call.input.tx.destination.city)

\* C14: under the fallback policy a call whose address lookup failed or timed
\* out is validated against the local rules, passes or fails by them, and its
\* AddressValidation result has no errorType and metadata source "fallback",
\* whether it passes or fails
C14_FallbackPolicy ==
    (policy = "fallback" /\ lookupFailed(last)) =>
        /\ last.kind = "returned"
        /\ \E r \in resultsOf(last, "AddressValidation") :
               /\ r.passed = localVerdict(last)
               /\ r.errorType = ""
               /\ "source" \in DOMAIN r.metadata
               /\ r.metadata.source = "fallback"

\* ------------------------------------------------- C15
PublicGateNames == { "ADDRESS_VALIDATION", "APPLICABILITY", "EXEMPTION_CHECK" }

\* C15: the gates of a response name only ADDRESS_VALIDATION, APPLICABILITY and
\* EXEMPTION_CHECK (never InputValidation), each the rename of the internal
\* result it stands for; when InputValidation fails, gates is empty and the
\* failure is the one line of auditTrail
C15_PublicGates ==
    last.kind = "returned" =>
        /\ \A i \in 1..Len(last.response.gates) :
               /\ last.response.gates[i].name \in PublicGateNames
               /\ i + 1 \in 1..Len(last.results)
               /\ last.response.gates[i].name = gateNameMapping(last.results[i + 1].gateName)
        /\ \A r \in resultsOf(last, "InputValidation") :
               ~r.passed =>
                   /\ last.response.gates = <<>>
                   /\ last.response.auditTrail = << "InputValidation failed: " \o r.message >>

\* input validation rejecting a transaction in EUR: no gate entry, one audit line
C15_Witness ==
    /\ last.kind = "returned"
    /\ last.input.tx = invalidTransactionWrongCurrency
    /\ \E r \in resultsOf(last, "InputValidation") : ~r.passed
    /\ last.response.status = "REJECTED"
    /\ last.response.gates = <<>>
    /\ Len(last.response.auditTrail) = 1

\* ------------------------------------------------- C16
\* whether an exemption applies to the call: an exempt customer type or an item
\* whose category is exempt in the destination state
exemptionApplies(input) ==
    \/ isCustomerExempt(input.ctx.customerType)
    \/ \E i \in 1..Len(input.tx.items) :
           isItemExempt(input.tx.items[i].category, input.tx.destination.state)

\* C16: in a response the EXEMPTION_CHECK entry has an appliedExemptions array,
\* empty exactly when no exemption applies, and no other entry has the field
C16_AppliedExemptions ==
    last.kind = "returned" =>
        \A i \in 1..Len(last.response.gates) :
            IF last.response.gates[i].name = "EXEMPTION_CHECK"
            THEN /\ "appliedExemptions" \in DOMAIN last.response.gates[i]
                 /\ (last.response.gates[i].appliedExemptions = <<>>)
                        <=> ~exemptionApplies(last.input)
            ELSE "appliedExemptions" \notin DOMAIN last.response.gates[i]

\* a wholesale customer's response: three entries, the third with the exemption
C16_Witness ==
    /\ last.kind = "returned"
    /\ last.response.status = "CALCULATED"
    /\ Len(last.response.gates) = 3
    /\ "appliedExemptions" \notin DOMAIN last.response.gates[1]
    /\ "appliedExemptions" \notin DOMAIN last.response.gates[2]
    /\ last.response.gates[3].name = "EXEMPTION_CHECK"
    /\ last.response.gates[3].appliedExemptions = << "WHOLESALE" >>

\* ------------------------------------------------- C17
\* the volume and the threshold configured for the call's merchant and state:
\* 0 and 100000 when nothing is configured for the pair
configuredVolume(input) ==
    IF database
    THEN LET rows == merchantRows(merchantThresholds, input.tx.merchantId,
                                   input.tx.destination.state)
         IN IF rows = {} THEN 0 ELSE (CHOOSE r \in rows : TRUE).current_volume
    ELSE IF MERCHANT_VOLUMES(input.tx.merchantId, input.tx.destination.state) = Undefined
         THEN 0
         ELSE MERCHANT_VOLUMES(input.tx.merchantId, input.tx.destination.state)

configuredThreshold(input) ==
    IF database
    THEN LET rows == merchantRows(merchantThresholds, input.tx.merchantId,
                                   input.tx.destination.state)
         IN IF rows = {} THEN 100000 ELSE (CHOOSE r \in rows : TRUE).threshold_amount
    ELSE 100000

unknownMerchantState(input) ==
    IF database
    THEN merchantRows(merchantThresholds, input.tx.merchantId,
                                   input.tx.destination.state) = {}
    ELSE MERCHANT_VOLUMES(input.tx.merchantId, input.tx.destination.state) = Undefined

\* C17: ApplicabilityGate passes exactly when the merchant's volume in the
\* destination state is at least the threshold; its failure has errorType
\* VALIDATION and a message giving the volume and the threshold; a merchant and
\* state with no volume data have volume 0 and fail
C17_Applicability ==
    last.kind # "none" =>
        \A r \in resultsOf(last, "Applicability") :
            /\ r.passed <=> configuredVolume(last.input) >= configuredThreshold(last.input)
            /\ ~r.passed =>
                   /\ r.errorType = "VALIDATION"
                   /\ r.message =
                          "Merchant volume ($" \o ToLocaleString(configuredVolume(last.input))
                          \o ") below threshold ($"
                          \o ToLocaleString(configuredThreshold(last.input))
                          \o ") in " \o last.input.tx.destination.state
            /\ unknownMerchantState(last.input) =>
                   /\ ~r.passed
                   /\ r.metadata.volume = 0
                   /\ r.metadata.threshold = 100000

\* a merchant whose volume equals its threshold passing the gate
C17_Witness ==
    /\ database
    /\ last.kind = "gate"
    /\ configuredVolume(last.input) = configuredThreshold(last.input)
    /\ \E r \in resultsOf(last, "Applicability") : r.passed

\* ------------------------------------------------- C18
\* a number that is at least 0; NaN is not
nonNegativeNumber(x) == x # NaN /\ x >= 0

\* the message of the first check an item violates, "" when it violates none
itemViolation(item) ==
    IF Nullish(item) THEN "Each item must have an id (string)"
    ELSE IF item.id = "" THEN "Each item must have an id (string)"
    ELSE IF item.category = "" THEN "Each item must have a category (string)"
    ELSE IF ~nonNegativeNumber(item.amount)
    THEN "Each item must have a non-negative amount (number)"
    ELSE ""

firstItemViolation(items) ==
    LET bad == { i \in 1..Len(items) : itemViolation(items[i]) # "" }
    IN IF bad = {} THEN ""
       ELSE itemViolation(items[CHOOSE i \in bad : \A j \in bad : i <= j])

\* the items of the transaction, none when it has no items array
itemsOf(tx) == IF isArray(tx) THEN tx.items ELSE <<>>

\* the checks of the gate in their order, each with whether the transaction
\* violates it and the message of its failure
orderedChecks(tx) == <<
    [violated |-> tx.transactionId = "",
     message |-> "transactionId is required and must be a string"],
    [violated |-> tx.merchantId = "",
     message |-> "merchantId is required and must be a string"],
    [violated |-> tx.customerId = "",
     message |-> "customerId is required and must be a string"],
    [violated |-> Nullish(tx.destination), message |-> "destination is required"],
    [violated |-> Nullish(tx.destination) \/ tx.destination.country = "",
     message |-> "destination.country is required"],
    [violated |-> Nullish(tx.destination) \/ tx.destination.state = "",
     message |-> "destination.state is required"],
    [violated |-> Nullish(tx.destination) \/ tx.destination.city = "",
     message |-> "destination.city is required"],
    [violated |-> itemsOf(tx) = <<>>,
     message |-> "items is required and must be a non-empty array"],
    [violated |-> firstItemViolation(itemsOf(tx)) # "",
     message |-> firstItemViolation(itemsOf(tx))],
    [violated |-> ~nonNegativeNumber(tx.totalAmount),
     message |-> "totalAmount is required and must be a non-negative number"],
    [violated |-> tx.currency = "",
     message |-> "currency is required and must be a string"],
    [violated |-> tx.currency # "USD",
     message |-> "Unsupported currency: " \o tx.currency \o ". Only USD is supported"],
    [violated |-> firstItemViolation(itemsOf(tx)) = ""
                  /\ nonNegativeNumber(tx.totalAmount)
                  /\ Abs(SumSeq(amountsOf(itemsOf(tx))) - tx.totalAmount) > 1,
     message |-> "does not match totalAmount"] >>

violatedChecks(tx) == { i \in 1..Len(orderedChecks(tx)) : orderedChecks(tx)[i].violated }

firstViolated(tx) == CHOOSE i \in violatedChecks(tx) : \A j \in violatedChecks(tx) : i <= j

\* whether the failure is the one of the transaction's earliest violated check
reportsFirstViolation(tx, result) ==
    /\ ~result.passed
    /\ result.errorType = "VALIDATION"
    /\ IF firstViolated(tx) = Len(orderedChecks(tx))
       THEN result.message = amountMismatch(itemsSumOf(tx.items), amountOf(tx.totalAmount))
       ELSE result.message = orderedChecks(tx)[firstViolated(tx)].message

\* C18: InputValidationGate returns the failure of the earliest check the
\* transaction violates, in the order transactionId, merchantId, customerId,
\* destination, country, state, city, items, each item, totalAmount, currency,
\* amount consistency; it passes, with "Input validation passed", only when no
\* check is violated
C18_FirstViolationReported ==
    last.kind = "validated" =>
        /\ ~last.outcome.threw
        /\ IF violatedChecks(last.input.tx) = {}
           THEN /\ last.outcome.result.passed
                /\ last.outcome.result.message = "Input validation passed"
           ELSE reportsFirstViolation(last.input.tx, last.outcome.result)

\* ------------------------------------------------- C19
\* C19: when the database was not available at start-up, process still runs
\* the gates on a valid transaction and returns a response
C19_FallsBackWithoutDatabase ==
    (database /\ ~ready /\ last.kind # "none" /\ last.input.tx = validTransactionCA) =>
        /\ last.kind = "returned"
        /\ Len(last.executed) > 0
        /\ last.response.status \in {"CALCULATED", "REJECTED"}

\* ------------------------------------------------- C20
\* the reference scenario: one SOFTWARE item of 100.00 to Los Angeles, CA, no
\* exemption, calculated
referenceScenario ==
    /\ cResult.done
    /\ cTx.destination = [country |-> "US", state |-> "CA", city |-> "Los Angeles"]
    /\ cTx.items = software100
    /\ cTx.totalAmount = 10000
    /\ cCtx.customerType = ""

\* C20: in the reference scenario the item has state rate 0.06 -> 6.00, county
\* rate 0.0025 -> 0.25, city rate 0.0225 -> 2.25, category modifier 0.01 -> 1.00
\* and totalFee 9.50; the result has totalFees 9.50 and effectiveRate 0.095
C20_ReferenceScenario ==
    referenceScenario =>
        /\ Len(calcItems) = 1
        /\ calcItems[1].fees.stateRate.rate = 600
        /\ calcItems[1].fees.stateRate.amount = 600
        /\ calcItems[1].fees.countyRate.present
        /\ calcItems[1].fees.countyRate.rate = 25
        /\ calcItems[1].fees.countyRate.amount = 25
        /\ calcItems[1].fees.cityRate.present
        /\ calcItems[1].fees.cityRate.rate = 225
        /\ calcItems[1].fees.cityRate.amount = 225
        /\ calcItems[1].fees.categoryModifier.rate = 100
        /\ calcItems[1].fees.categoryModifier.amount = 100
        /\ calcItems[1].totalFee = 950
        /\ cResult.calc.totalFees = 950
        /\ cResult.calc.effectiveRate = 950

\* the reference scenario calculated from the database's rate table
C20_Witness ==
    /\ referenceScenario
    /\ database
    /\ cResult.exemptionData = NoExemptionData
    /\ cResult.calc.totalFees = 950

\* ------------------------------------------------- C21
\* the call got to AddressValidationGate and found its key in the cache
cacheHitCall(call) ==
    /\ call.kind # "none"
    /\ "cache" \in DOMAIN call
    /\ ~database \/ ready
    /\ reachesAddressGate(call.input.tx)
    /\ cacheKeyOf(call.input.tx.destination) \in DOMAIN call.cache

\* the result is the verdict the cache held for the call's destination
cachedOutcome(call, r) ==
    /\ r.passed = call.cache[cacheKeyOf(call.input.tx.destination)]
    /\ IF r.passed
       THEN r.message = "Valid address (from cache)" /\ r.metadata.source = "cache"
       ELSE /\ r.errorType = "VALIDATION"
            /\ r.message = "Unsupported destination: " \o call.input.tx.destination.city
                            \o ", " \o call.input.tx.destination.state

\* a call with this input joins the calls waiting for their address lookup
startsLookup(input) ==
    \E w \in BagToSet(inflight') :
        /\ w.at = 2 /\ w.input = input
        /\ CopiesIn(w, inflight') > CopiesIn(w, inflight)

\* C21: a call that finds its key state:city in the cache gets the cached
\* verdict as its AddressValidation result and makes no lookup, and no call
\* starts a lookup while the cache holds its key
C21_CacheHit ==
    /\ [](cacheHitCall(last) =>
              /\ last.lookup = NoLookup
              /\ \E r \in resultsOf(last, "AddressValidation") : cachedOutcome(last, r))
    /\ [][\A input \in ProcessInputs :
              (hasDestination(input.tx) /\ startsLookup(input))
              => cacheKeyOf(input.tx.destination) \notin DOMAIN addressCache]_vars

\* Miami, FL rejected from the cache, no lookup made
C21_Witness ==
    /\ cacheHitCall(last)
    /\ last.input.tx = transactionUnsupportedState
    /\ last.lookup = NoLookup
    /\ last.cache["FL:Miami"] = FALSE
    /\ \E r \in resultsOf(last, "AddressValidation") :
           ~r.passed /\ r.message = "Unsupported destination: Miami, FL"

\* ------------------------------------------------- C22
\* C22: whatever the interleaving of the calls in flight, a key of the address
\* cache that holds a value keeps it: every later write to the key writes the
\* same boolean
C22_CacheWritesIdempotent ==
    [][\A k \in DOMAIN addressCache :
           k \in DOMAIN addressCache' /\ addressCache'[k] = addressCache[k]]_vars

\* ------------------------------------------------- C23
\* C23: whatever the interleaving of the RateTable.initialize calls of several
\* engines, the singleton is constructed and assigned at most once, and once
\* it is assigned nothing, a lookup included, replaces or changes it
C23_BuiltOnce ==
    [][/\ rateTable'.constructed <= 1
       /\ rateTable.instance # Null => rateTable'.instance = rateTable.instance]_vars

\* ------------------------------------------------- C24
\* a transaction object with a field missing or of the wrong type, or with an
\* item that is null or lacks a field
malformedTransaction(tx) ==
    \/ tx.transactionId = "" \/ tx.merchantId = "" \/ tx.customerId = ""
    \/ Nullish(tx.destination)
    \/ tx.destination.country = "" \/ tx.destination.state = ""
    \/ tx.destination.city = ""
    \/ itemsOf(tx) = <<>>
    \/ \E i \in 1..Len(tx.items) :
           \/ Nullish(tx.items[i])
           \/ tx.items[i].id = "" \/ tx.items[i].category = ""
           \/ tx.items[i].amount < 0
    \/ tx.totalAmount < 0
    \/ tx.currency = ""

\* C24: InputValidationGate.execute never throws; handed a malformed
\* transaction it returns a result with passed false and errorType VALIDATION
C24_NeverThrows ==
    last.kind = "validated" =>
        /\ ~last.outcome.threw
        /\ malformedTransaction(last.input.tx) =>
               /\ ~last.outcome.result.passed
               /\ last.outcome.result.errorType = "VALIDATION"

\* ------------------------------------------------- C25
\* the jurisdiction lookup of the call failed and the gate has no local answer:
\* under the DEPENDENCY policy, or when the queries of the fallback fail too
jurisdictionLookupFailed(call) ==
    /\ lookupFailed(call)
    /\ policy = "dependency"
       \/ (call.input.tx.destination.country = "US" /\ ~call.lookup.fallbackOk)

merchantLookupFailed(call) == call.kind # "none" /\ call.merchantLookup = "failed"

dependencyFailure(call, gateName) ==
    \E r \in resultsOf(call, gateName) : ~r.passed /\ r.errorType = "DEPENDENCY"

\* C25: when the jurisdiction lookup of AddressValidationGate fails (the
\* queries of the fallback included) or the merchant volume / threshold lookup
\* of ApplicabilityGate fails, the gate returns a failed result with errorType
\* DEPENDENCY and the orchestrator returns; the call does not end in an exception
C25_LookupFailureIsDependency ==
    /\ jurisdictionLookupFailed(last) =>
           last.kind = "returned" /\ dependencyFailure(last, "AddressValidation")
    /\ merchantLookupFailed(last) =>
           last.kind = "returned" /\ dependencyFailure(last, "Applicability")

\* ------------------------------------------------- C26
\* the call missed the cache and its lookup completed with an answer
lookupAnswered(call) == call.kind # "none" /\ call.lookup.kind = "answer"

sameKey(a, b) == cacheKeyOf(a.input.tx.destination) = cacheKeyOf(b.input.tx.destination)

\* C26: when the lookup of a call that missed the cache completes, the gate
\* passes exactly when the verdict on (country, state, city) is true, the
\* verdict, true or false, is in the cache under state:city, and the next call
\* for the same key is answered from the cache with that verdict
C26_AnswerIsCached ==
    /\ lookupAnswered(last) =>
           \E r \in resultsOf(last, "AddressValidation") :
               /\ r.passed = localVerdict(last)
               /\ cacheKeyOf(last.input.tx.destination) \in DOMAIN addressCache
               /\ addressCache[cacheKeyOf(last.input.tx.destination)] = r.passed
    /\ (lookupAnswered(prev) /\ last.kind # "none" /\ reachesAddressGate(last.input.tx)
        /\ sameKey(prev, last)) =>
           /\ last.lookup = NoLookup
           /\ cacheHitCall(last)
           /\ \E r \in resultsOf(last, "AddressValidation") :
                  /\ r.passed = localVerdict(prev)
                  /\ cachedOutcome(last, r)

\* the lookup for Miami, FL answers false; the next call for Miami, FL is
\* rejected from the cache
C26_Witness ==
    /\ lookupAnswered(prev)
    /\ prev.input.tx = transactionUnsupportedState
    /\ \E r \in resultsOf(prev, "AddressValidation") : ~r.passed
    /\ last.kind = "returned"
    /\ last.input.tx = transactionUnsupportedState
    /\ last.lookup = NoLookup
    /\ addressCache["FL:Miami"] = FALSE
    /\ \E r \in resultsOf(last, "AddressValidation") :
           ~r.passed /\ r.errorType = "VALIDATION"

\* ------------------------------------------------- C27
\* the Transaction invariant: USD, at least one item, every item amount and
\* the total a number that is at least 0, and the item amounts adding up to
\* the total within a cent
transactionInvariant(tx) ==
    /\ tx.currency = "USD"
    /\ tx.items # <<>>
    /\ \A i \in 1..Len(tx.items) : nonNegativeNumber(tx.items[i].amount)
    /\ nonNegativeNumber(tx.totalAmount)
    /\ Abs(SumSeq(amountsOf(tx.items)) - tx.totalAmount) <= 1

\* the orchestrator goes on from InputValidation to the later gates
goesOnToLaterGates(validated) ==
    /\ validated.kind = "validated"
    /\ ~validated.outcome.threw
    /\ ~shortCircuit(validated.outcome.result)

\* C27: a transaction the orchestrator lets past InputValidation, to the later
\* gates and the calculator, satisfies the Transaction invariant
C27_ValidatedInvariant ==
    goesOnToLaterGates(last) => transactionInvariant(last.input.tx)

\* ------------------------------------------------- C28
\* the rates the configuration holds: the jurisdiction_rates rows of the
\* database revision, rules.ts (its city rates are Los Angeles' and New York
\* City's) of the static one
rateRows(state, rateType) ==
    { i \in 1..Len(JurisdictionRateRows) :
          JurisdictionRateRows[i].state = state
          /\ JurisdictionRateRows[i].rateType = rateType }

configuredStateRate(db, state) ==
    IF db
    THEN IF rateRows(state, "state") = {} THEN 0
         ELSE JurisdictionRateRows[CHOOSE i \in rateRows(state, "state") : TRUE].rate
    ELSE IF STATE_RATES(state).stateRate = Undefined THEN 0
         ELSE STATE_RATES(state).stateRate

configuredModifier(category) ==
    IF CATEGORY_MODIFIERS(category) = Undefined THEN 0 ELSE CATEGORY_MODIFIERS(category)

\* a county rate is configured for the state or for the state:city pair
countyRateConfigured(db, state, city) ==
    IF db
    THEN \E i \in rateRows(state, "county") :
             JurisdictionRateRows[i].city \in {"", city}
    ELSE STATE_RATES(state).countyRate # Undefined

\* a city rate is configured for exactly the state:city pair
cityRateConfigured(db, state, city) ==
    IF db
    THEN \E i \in rateRows(state, "city") : JurisdictionRateRows[i].city = city
    ELSE /\ STATE_RATES(state).cityRate # Undefined
         /\ <<state, city>> \in { <<"CA", "Los Angeles">>, <<"NY", "New York City">> }

\* C28: the breakdown of a non-exempt item always has stateRate, with the
\* configured rate or 0, and categoryModifier, with the category's modifier or
\* 0; it has countyRate only if a county rate is configured for the state or
\* the state:city pair, and cityRate only if a city rate is configured for
\* exactly that state:city pair
C28_BreakdownComponents ==
    cResult.done =>
        \A i \in 1..Len(calcItems) :
            ~isItemExemptInCalculation(cTx.items[i], cResult.exemptionData) =>
                /\ calcItems[i].fees.stateRate.present
                /\ calcItems[i].fees.stateRate.rate = configuredStateRate(database, calcState)
                /\ calcItems[i].fees.categoryModifier.present
                /\ calcItems[i].fees.categoryModifier.rate
                       = configuredModifier(cTx.items[i].category)
                /\ calcItems[i].fees.countyRate.present
                       => countyRateConfigured(database, calcState, calcCity)
                /\ calcItems[i].fees.cityRate.present
                       => cityRateConfigured(database, calcState, calcCity)

\* ------------------------------------------------- C29
\* GateOrchestrator.execute returned to the call
orchestratorReturned(call) == call.kind # "none" /\ "gateAuditTrail" \in DOMAIN call

\* the audit line belongs to the result: it is the result's message, or names
\* the gate and its failure
lineOf(result, line) ==
    line \in { result.message, result.gateName \o " passed",
               result.gateName \o " failed: " \o result.message }

\* C29: the gates executed in a call are the first gates of the order
\* InputValidation, AddressValidation, Applicability, ExemptionCheck, each once;
\* the results and the audit trail that GateOrchestrator.execute returns hold one
\* entry per executed gate, in that order, and so have the same length
C29_OneEntryPerGate ==
    /\ last.kind # "none" =>
           /\ Len(last.executed) <= Len(GateNames)
           /\ last.executed = SubSeq(GateNames, 1, Len(last.executed))
    /\ orchestratorReturned(last) =>
           /\ Len(last.results) = Len(last.executed)
           /\ Len(last.gateAuditTrail) = Len(last.executed)
           /\ \A i \in 1..Len(last.executed) :
                  /\ last.results[i].gateName = GateNames[i]
                  /\ lineOf(last.results[i], last.gateAuditTrail[i])

\* a merchant below its threshold: three gates executed, three results, three
\* audit lines, the last one the failure of Applicability
C29_Witness ==
    /\ orchestratorReturned(last)
    /\ last.input.tx = transactionMerchantBelowThreshold
    /\ last.executed = << "InputValidation", "AddressValidation", "Applicability" >>
    /\ Len(last.results) = 3
    /\ Len(last.gateAuditTrail) = 3
    /\ last.results[1].passed /\ last.results[2].passed /\ ~last.results[3].passed
    /\ last.gateAuditTrail[3] = "Applicability failed: " \o last.results[3].message

\* ------------------------------------------------- C30
\* the lines of the audit trail that GateOrchestrator.execute returned, each with
\* the result it was appended for
appendedLines(call) ==
    { << call.results[i], call.gateAuditTrail[i] >> : i \in 1..Len(call.results) }

\* C30 as stated: the line appended for a gate is "<gate> passed" when the gate
\* passed and "<gate> failed: <message>" when it failed
C30_AuditLine ==
    orchestratorReturned(last) =>
        \A p \in appendedLines(last) :
            p[2] = IF p[1].passed
                   THEN p[1].gateName \o " passed"
                   ELSE p[1].gateName \o " failed: " \o p[1].message

\* C30 amended: the line appended for a gate that passed is the result's message
\* when it has one, and "<gate> passed" only when the message is empty; for a
\* gate that failed it is "<gate> failed: <message>"
C30_AuditLineAsCoded ==
    orchestratorReturned(last) =>
        \A p \in appendedLines(last) :
            p[2] = IF p[1].passed
                   THEN IF p[1].message # "" THEN p[1].message
                        ELSE p[1].gateName \o " passed"
                   ELSE p[1].gateName \o " failed: " \o p[1].message

\* a destination outside the supported states: the line of the passed gate is
\* its message, the line of the failed gate names the gate and its message
C30_Witness ==
    /\ orchestratorReturned(last)
    /\ last.input.tx = transactionUnsupportedState
    /\ Len(last.gateAuditTrail) = 2
    /\ last.results[1].passed /\ ~last.results[2].passed
    /\ last.gateAuditTrail[1] = "Input validation passed"
    /\ last.gateAuditTrail[2] = "AddressValidation failed: " \o last.results[2].message

\* ------------------------------------------------- C31
\* the exemption data the ExemptionCheck gate of the call reported
reportedExemptionData(call) ==
    (CHOOSE r \in resultsOf(call, "ExemptionCheck") : TRUE).metadata.exemptionData

\* the i-th item of the call was exempted: the customer is exempt, or the
\* reported item exemptions hold reasons under the item's id
exempted(call, i) ==
    \/ Len(reportedExemptionData(call).customerExemptions) > 0
    \/ \E k \in 1..Len(reportedExemptionData(call).itemExemptions) :
           /\ reportedExemptionData(call).itemExemptions[k].key = call.input.tx.items[i].id
           /\ Len(reportedExemptionData(call).itemExemptions[k].value) > 0

\* the line of a fee component, present when the component has a non-zero amount
componentLine(component, label) ==
    IF component.present /\ component.amount # 0
    THEN << "Applied " \o label \o ": " \o PercentFixed2(component.rate) \o "%" >>
    ELSE <<>>

\* the lines the claim gives the i-th item, from the response's breakdown
linesOfItem(call, i) ==
    IF exempted(call, i)
    THEN << "Item " \o call.input.tx.items[i].id \o " ("
            \o call.input.tx.items[i].category \o ") exempt - no fees applied" >>
    ELSE componentLine(call.response.calculation.items[i].fees.stateRate,
                       call.input.tx.destination.state \o " state rate")
         \o componentLine(call.response.calculation.items[i].fees.countyRate,
                          call.response.calculation.items[i].fees.countyRate.jurisdiction
                          \o " county rate")
         \o componentLine(call.response.calculation.items[i].fees.cityRate,
                          call.response.calculation.items[i].fees.cityRate.jurisdiction
                          \o " city rate")
         \o componentLine(call.response.calculation.items[i].fees.categoryModifier,
                          call.input.tx.items[i].category \o " category modifier")

\* the lines of items 1..n in item-processing order
RECURSIVE linesOfItems(_, _)
linesOfItems(call, n) ==
    IF n = 0 THEN <<>> ELSE linesOfItems(call, n - 1) \o linesOfItem(call, n)

\* C31: the audit trail of a CALCULATED response is the orchestrator's gate
\* lines followed by the calculator's lines, which are, item by item in
\* processing order, one line per fee component with a non-zero amount for an
\* item that was not exempted and exactly one line for an exempted item; the
\* audit trail of a REJECTED response is the gate lines alone
C31_AuditTrailLines ==
    last.kind = "returned" =>
        IF last.response.status = "CALCULATED"
        THEN /\ Len(last.response.calculation.items) = Len(last.input.tx.items)
             /\ last.response.auditTrail
                = last.gateAuditTrail \o linesOfItems(last, Len(last.input.tx.items))
        ELSE last.response.auditTrail = last.gateAuditTrail

\* a CALCULATED response with an exempted item, which has one line, and an item
\* that was not exempted of which one component has a zero amount and no line
C31_Witness ==
    /\ last.kind = "returned"
    /\ last.response.status = "CALCULATED"
    /\ Len(last.response.auditTrail) > Len(last.gateAuditTrail)
    /\ \E i, j \in 1..Len(last.input.tx.items) :
          /\ exempted(last, i)
          /\ Len(linesOfItem(last, i)) = 1
          /\ ~exempted(last, j)
          /\ last.response.calculation.items[j].fees.countyRate.present
          /\ last.response.calculation.items[j].fees.countyRate.amount = 0
          /\ Len(linesOfItem(last, j)) = 3

\* ------------------------------------------------- C32
\* ExemptionGate.execute has run on the transaction and returned this result
exemptionGateRan(call) == call.kind = "gate" /\ resultsOf(call, "ExemptionCheck") # {}

\* C32: ExemptionGate.execute returns a result with passed = true, and no
\* errorType, for every transaction and for every context: omitted, an exempt
\* customer type, a customer type that is not exempt
C32_ExemptionGatePasses ==
    last.kind = "gate" =>
        /\ Len(last.results) = 1
        /\ last.results[1].gateName = "ExemptionCheck"
        /\ last.results[1].passed
        /\ last.results[1].errorType = ""

\* the gate passed for a customer type that is not exempt, on a transaction
\* with an exempt item and one that is not
C32_Witness ==
    /\ exemptionGateRan(last)
    /\ last.input.ctx.customerType = "RETAIL"
    /\ last.results[1].passed
    /\ \E i, j \in 1..Len(last.input.tx.items) :
          /\ isItemExempt(last.input.tx.items[i].category, last.input.tx.destination.state)
          /\ ~isItemExempt(last.input.tx.items[j].category, last.input.tx.destination.state)

\* ------------------------------------------------- C33
\* the reasons the exemption data holds for the i-th item of the call: the
\* value stored under the item's id, none when there is no entry
reasonsFor(call, i) ==
    IF MapHas(reportedExemptionData(call).itemExemptions, call.input.tx.items[i].id)
    THEN MapGet(reportedExemptionData(call).itemExemptions, call.input.tx.items[i].id)
    ELSE <<>>

\* the item exemption rules: FOOD is exempt in CA
inItemExemptionRules(category, state) == category = "FOOD" /\ state = "CA"

\* C33: customerExemptions holds context.customerType exactly when the type is
\* present and in the exempt set {WHOLESALE}, and is empty otherwise; an item
\* has an itemExemptions entry, with the reason "<category> exempt in <state>",
\* exactly when its category and the destination state are in the item
\* exemption rules
C33_ExemptionData ==
    exemptionGateRan(last) =>
        /\ reportedExemptionData(last).customerExemptions
           = IF last.input.ctx.customerType = "WHOLESALE" THEN << "WHOLESALE" >> ELSE <<>>
        /\ \A i \in 1..Len(last.input.tx.items) :
              reasonsFor(last, i)
              = IF inItemExemptionRules(last.input.tx.items[i].category,
                                        last.input.tx.destination.state)
                THEN << last.input.tx.items[i].category \o " exempt in "
                        \o last.input.tx.destination.state >>
                ELSE <<>>

\* ------------------------------------------------- C34
\* "<itemId>: <reason>" for every exempt item among items 1..n, in item order
RECURSIVE itemEntries(_, _, _)
itemEntries(items, state, n) ==
    IF n = 0 THEN <<>>
    ELSE itemEntries(items, state, n - 1)
         \o (IF inItemExemptionRules(items[n].category, state)
             THEN << items[n].id \o ": " \o items[n].category \o " exempt in " \o state >>
             ELSE <<>>)

\* C34: appliedExemptions is the customer exemptions followed by one entry
\* "<itemId>: <reason>" per exempt item of the transaction, in item order; it is
\* the empty list when nothing is exempt
C34_AppliedExemptionsList ==
    exemptionGateRan(last) =>
        last.results[1].metadata.appliedExemptions
        = (IF last.input.ctx.customerType = "WHOLESALE" THEN << "WHOLESALE" >> ELSE <<>>)
          \o itemEntries(last.input.tx.items, last.input.tx.destination.state,
                         Len(last.input.tx.items))

\* ------------------------------------------------- C35
\* the public gates in pipeline order
PublicGateOrder == << "ADDRESS_VALIDATION", "APPLICABILITY", "EXEMPTION_CHECK" >>

\* the positions of the entries of a gates list that did not pass
failedEntries(gates) == { i \in 1..Len(gates) : ~gates[i].passed }

\* C35: the gates list of every response names a prefix of ADDRESS_VALIDATION,
\* APPLICABILITY, EXEMPTION_CHECK in that order; a CALCULATED response has all
\* three, each passed; a REJECTED response has at most one entry that did not
\* pass, and that entry is the last of the list
C35_GatesListIsPrefix ==
    last.kind = "returned" =>
        /\ Len(last.response.gates) <= Len(PublicGateOrder)
        /\ \A i \in 1..Len(last.response.gates) :
              last.response.gates[i].name = PublicGateOrder[i]
        /\ last.response.status = "CALCULATED" =>
              /\ Len(last.response.gates) = 3
              /\ failedEntries(last.response.gates) = {}
        /\ last.response.status = "REJECTED" =>
              failedEntries(last.response.gates) \subseteq { Len(last.response.gates) }

\* a merchant below its threshold: ADDRESS_VALIDATION passed, then APPLICABILITY,
\* the last entry, did not
C35_Witness ==
    /\ last.kind = "returned"
    /\ last.response.status = "REJECTED"
    /\ Len(last.response.gates) = 2
    /\ last.response.gates[1].name = "ADDRESS_VALIDATION"
    /\ last.response.gates[1].passed
    /\ last.response.gates[2].name = "APPLICABILITY"
    /\ ~last.response.gates[2].passed

\* ------------------------------------------------- C36
\* the fee computed for the i-th item alone: 0 for an exempt item
feeOfItemAlone(i) ==
    IF isItemExemptInCalculation(cTx.items[i], cResult.exemptionData) THEN 0
    ELSE calculateItemFees(database, cTx.items[i], calcState, calcCity).totalFee

\* C36: in every result of calculateFees each item's totalFee is the value
\* computed for that item alone, 0 for an exempt item, the last one included,
\* and totalFees is the sum of those values to the cent: the precision check
\* finds no difference and the last item is never adjusted
C36_ReconciliationNeverAlters ==
    cResult.done =>
        /\ Len(calcItems) = Len(cTx.items)
        /\ \A i \in 1..Len(calcItems) : calcItems[i].totalFee = feeOfItemAlone(i)
        /\ cResult.calc.totalFees = SumSeq([i \in 1..Len(cTx.items) |-> feeOfItemAlone(i)])
        /\ cResult.calc.totalFees = sumTotalFee(calcItems)

\* several items, one with a fee rounded to the cent, the last one exempt
C36_Witness ==
    /\ cResult.done
    /\ Len(calcItems) >= 3
    /\ isItemExemptInCalculation(cTx.items[Len(cTx.items)], cResult.exemptionData)
    /\ calcItems[Len(calcItems)].totalFee = 0
    /\ cResult.calc.totalFees > 0
    /\ \E i \in 1..Len(calcItems) :
          /\ calcItems[i].totalFee > 0
          /\ calcItems[i].totalFee * 10000
             # unroundedItemFee(database, cTx.items[i], calcState, calcCity,
                                cResult.exemptionData)

\* ------------------------------------------------- C37
\* the calls in progress that are past a lookup that failed or timed out
failedLookups(calls) == { w \in BagToSet(calls) : w.at > 2 /\ w.lookup.kind = "error" }

\* in the step the lookup of a call fails or times out: the call runs on from
\* its address lookup with the error, to its next await point or to its end
failedLookupCompletes ==
    /\ \E w \in BagToSet(inflight) : w.at = 2 /\ CopiesIn(w, inflight') < CopiesIn(w, inflight)
    /\ \/ failedLookups(inflight') # {}
       \/ last' # last /\ lookupFailed(last')

\* the destination of the call whose lookup fails in the step
failedDestinations ==
    { w.input.tx.destination :
        w \in { v \in BagToSet(inflight) : v.at = 2 /\ CopiesIn(v, inflight') < CopiesIn(v, inflight) } }

\* the call goes to the remote lookup: it is not answered from the cache
looksUpAgain(call) == call.kind # "none" /\ call.lookup.kind \in {"answer", "error"}

\* C37: under the DEPENDENCY policy the completion of a call whose lookup failed
\* or timed out leaves the address cache as it was, with no entry for the call's
\* key, and the next call for the same destination goes to the remote lookup
\* again
C37_FailureLeavesCache ==
    /\ [][(policy = "dependency" /\ failedLookupCompletes)
            => /\ addressCache' = addressCache
               /\ \A destination \in failedDestinations :
                      cacheKeyOf(destination) \notin DOMAIN addressCache']_vars
    /\ []((policy = "dependency" /\ lookupFailed(prev) /\ last.kind # "none"
           /\ last.input = prev.input)
          => looksUpAgain(last))

\* the lookup of a call failed and the call was rejected as DEPENDENCY; the next
\* call for the same destination looked the address up again, was answered, and
\* passed
C37_Witness ==
    /\ policy = "dependency"
    /\ lookupFailed(prev)
    /\ prev.kind = "returned"
    /\ prev.response.status = "REJECTED"
    /\ last.kind = "returned"
    /\ last.input = prev.input
    /\ last.lookup.kind = "answer"
    /\ last.response.status = "CALCULATED"

\* ------------------------------------------------- C38
\* the rejections AddressValidationGate returned in the call
addressRejections(call) ==
    IF call.kind = "none" THEN {}
    ELSE { r \in resultsOf(call, "AddressValidation") : ~r.passed }

\* C38: two rejections of the same destination by AddressValidationGate carry
\* the same errorType, whether they come from a remote answer, from the
\* fallback validation or from the cache
C38_SameErrorType ==
    \A a \in addressRejections(prev), b \in addressRejections(last) :
        prev.input.tx.destination = last.input.tx.destination
        => a.errorType = b.errorType

\* ------------------------------------------------- C39
\* the step in which the timer of a lookup fires first
timerFires == waiting.at = 2 /\ BagCardinality(inflight') > BagCardinality(inflight)

\* the step in which the queries of a lookup that lost its race settle
lateAnswerSettles == BagCardinality(inflight') < BagCardinality(inflight)

\* the call was rejected by AddressValidationGate because its lookup timed out
timedOut(call) ==
    /\ call.kind = "returned"
    /\ call.lookup = TimedOutLookup
    /\ call.response.status = "REJECTED"
    /\ \E r \in resultsOf(call, "AddressValidation") :
          ~r.passed /\ r.errorType = "DEPENDENCY"

\* the call whose timer fired has settled rejected, or has nothing left to
\* await but the persistence of its rejection
endsTimedOut ==
    IF waiting = NoWait THEN timedOut(last)
    ELSE waiting.at = 4 /\ waiting.lookup = TimedOutLookup

\* C39: once the timer wins the race the execution ends with the failure
\* outcome and writes no cache entry; the answer of its lookup, when it
\* arrives later, is written to no cache entry and changes neither the
\* completed call nor a call in progress
C39_LateAnswerDiscarded ==
    /\ [][timerFires => (endsTimedOut' /\ addressCache' = addressCache)]_vars
    /\ [][(waiting.at = 4 /\ waiting.lookup = TimedOutLookup /\ waiting' = NoWait)
            => (timedOut(last') /\ addressCache' = addressCache)]_vars
    /\ [][lateAnswerSettles
            => (addressCache' = addressCache /\ last' = last /\ waiting' = waiting)]_vars

\* the lookup of a supported destination timed out and its answer has arrived
\* since: the call stays rejected and the cache has no entry for the key
C39_Witness ==
    /\ timedOut(last)
    /\ last.input.tx = validTransactionCA
    /\ inflight = EmptyBag
    /\ cacheKeyOf(last.input.tx.destination) \notin DOMAIN addressCache

\* ------------------------------------------------- C40
\* the statement is among those the call issued
issuedIn(call, statement) == \E i \in 1..Len(call.issued) : call.issued[i] = statement

\* the callback ran to its end: every statement of it resolved
callbackSucceeded(call) ==
    call.failedAt \in { "", "COMMIT" } /\ Len(call.issued) > Len(callbackStatements(call.items))

\* the callback ran and a statement of it rejected
callbackFailed(call) ==
    call.failedAt \in { "INSERT INTO transactions", "DELETE FROM transaction_items",
                        "INSERT INTO transaction_items" }

\* C40: a call of transaction that got its client issues BEGIN, runs the
\* callback, then issues COMMIT if the callback succeeded, or ROLLBACK if it
\* failed and rejects with the callback's error; COMMIT and ROLLBACK are never
\* both issued for one call, and the client is released exactly once
C40_CommitOrRollback ==
    (last.kind = "transaction" /\ last.acquired) =>
        /\ last.issued[1] = "BEGIN"
        /\ callbackSucceeded(last) => issuedIn(last, "COMMIT")
        /\ callbackFailed(last) =>
              /\ last.issued[Len(last.issued)] = "ROLLBACK"
              /\ last.outcome = "rejected"
              /\ last.error = last.failedAt
        /\ ~(issuedIn(last, "COMMIT") /\ issuedIn(last, "ROLLBACK"))
        /\ last.released = 1

====
